---- MODULE Spec2Model ----
(***************************************************************************)
(* A model of the data module of llamavis: DataValidator, DataTransformer, *)
(* the DataProcessor classes (core/data.py) and the helpers normalize_data,*)
(* pivot_data_for_heatmap and prepare_network_data (core/utils.py).        *)
(*                                                                         *)
(* A caller holds one Python object, `data`, and invokes an operation on   *)
(* it.  An operation returns a value or raises, and may write to the       *)
(* object it was handed.  `prev` is the object as it was when the last     *)
(* call was made.                                                          *)
(***************************************************************************)
EXTENDS Integers, Sequences, FiniteSets, TLC

VARIABLES
    fn,     \* the operation the caller invokes ("validate_for_chart", ...)
    arg,    \* its arguments other than the data object
    prev,   \* the data object as it was when the last call was made
    data,   \* the data object the caller holds
    ret,    \* outcome of the last call: returned value or raised exception
    n       \* number of calls made so far

vars == <<fn, arg, prev, data, ret, n>>

-----------------------------------------------------------------------------
(* Python values.  Each value carries its type in field k, so that         *)
(* isinstance(), `in` and len() can be decided as Python decides them.     *)

None == [k |-> "none"]
PInt(i) == [k |-> "int", i |-> i]
FStr(template, args) == [k |-> "str", s |-> template, args |-> args]
PStr(s) == FStr(s, <<>>)
PList(l) == [k |-> "list", l |-> l]
PTuple(l) == [k |-> "tuple", l |-> l]
PDict(d) == [k |-> "dict", d |-> d]
PCallable == [k |-> "callable"]

EmptyMap == [key \in {} |-> None]

IsDict(v) == v.k = "dict"
IsList(v) == v.k = "list"
HasKey(v, key) == key \in DOMAIN v.d
Get(v, key) == v.d[key]
Put(v, key, val) ==
    PDict([a \in DOMAIN v.d \cup {key} |-> IF a = key THEN val ELSE v.d[a]])

ListField(d, key) == HasKey(d, key) /\ IsList(Get(d, key))

\* len(): defined for the sized types, TypeError for the others.
Sized(v) == v.k \in {"list", "tuple", "dict", "str"}
PyLen(v) ==
    IF v.k = "dict" THEN Cardinality(DOMAIN v.d)
    ELSE IF v.k = "str" THEN Len(v.s)
    ELSE Len(v.l)

\* Outcomes of a call.
NotCalled == [kind |-> "pending"]
Return(v) == [kind |-> "return", val |-> v]
Raise(exc) == [kind |-> "raise", exc |-> exc]

\* The (is_valid, error_message) pair of the validators.
Valid == Return(<<TRUE, None>>)
Invalid(msg) == Return(<<FALSE, msg>>)

SeqRange(q) == {q[i] : i \in 1..Len(q)}

-----------------------------------------------------------------------------
(* DataValidator.validate_for_chart                                        *)

RECURSIVE SeriesDatasetsLongerOnly(_, _, _)
\* SeriesDatasets with the length test written > instead of !=
SeriesDatasetsLongerOnly(datasets, labels, i) ==
    IF i > Len(datasets) THEN Valid
    ELSE LET dataset == datasets[i] IN
         IF ~IsDict(dataset) THEN Invalid(PStr("Each dataset must be a dictionary"))
         ELSE IF ~HasKey(dataset, "data")
              THEN Invalid(PStr("Each dataset must have a 'data' key"))
         ELSE IF ~IsList(Get(dataset, "data"))
              THEN Invalid(PStr("Dataset 'data' must be a list"))
         ELSE IF PyLen(Get(dataset, "data")) > PyLen(labels)
              THEN Invalid(FStr("Dataset has {} values but there are {} labels",
                                <<PInt(PyLen(Get(dataset, "data"))), PInt(PyLen(labels))>>))
         ELSE SeriesDatasetsLongerOnly(datasets, labels, i + 1)

RECURSIVE SeriesDatasets(_, _, _)
\* the loop of data.py:55-66 from dataset i on
SeriesDatasets(datasets, labels, i) ==
    IF i > Len(datasets) THEN Valid
    ELSE LET dataset == datasets[i] IN
         IF ~IsDict(dataset) THEN Invalid(PStr("Each dataset must be a dictionary"))
         ELSE IF ~HasKey(dataset, "data")
              THEN Invalid(PStr("Each dataset must have a 'data' key"))
         ELSE IF ~IsList(Get(dataset, "data"))
              THEN Invalid(PStr("Dataset 'data' must be a list"))
         ELSE IF PyLen(Get(dataset, "data")) # PyLen(labels)
              THEN Invalid(FStr("Dataset has {} values but there are {} labels",
                                <<PInt(PyLen(Get(dataset, "data"))), PInt(PyLen(labels))>>))
         ELSE SeriesDatasets(datasets, labels, i + 1)

RECURSIVE ScatterPointsNoY(_, _)
\* ScatterPoints without the test for 'y'
ScatterPointsNoY(points, j) ==
    IF j > Len(points) THEN None
    ELSE LET point == points[j] IN
         IF ~IsDict(point) THEN PStr("Each data point must be a dictionary")
         ELSE IF ~HasKey(point, "x") THEN PStr("Each data point must have an 'x' value")
         ELSE ScatterPointsNoY(points, j + 1)

RECURSIVE ScatterPoints(_, _)
\* the loop of data.py:113-121 from point j on; TRUE-valued result is None
ScatterPoints(points, j) ==
    IF j > Len(points) THEN None
    ELSE LET point == points[j] IN
         IF ~IsDict(point) THEN PStr("Each data point must be a dictionary")
         ELSE IF ~HasKey(point, "x") THEN PStr("Each data point must have an 'x' value")
         ELSE IF ~HasKey(point, "y") THEN PStr("Each data point must have a 'y' value")
         ELSE ScatterPoints(points, j + 1)

RECURSIVE ScatterDatasets(_, _)
\* the loop of data.py:103-121 from dataset i on
ScatterDatasets(datasets, i) ==
    IF i > Len(datasets) THEN Valid
    ELSE LET dataset == datasets[i] IN
         IF ~IsDict(dataset) THEN Invalid(PStr("Each dataset must be a dictionary"))
         ELSE IF ~HasKey(dataset, "data")
              THEN Invalid(PStr("Each dataset must have a 'data' key"))
         ELSE IF ~IsList(Get(dataset, "data"))
              THEN Invalid(PStr("Dataset 'data' must be a list"))
         ELSE LET bad == ScatterPoints(Get(dataset, "data").l, 1) IN
              IF bad # None THEN Invalid(bad)
              ELSE ScatterDatasets(datasets, i + 1)

\* ValidateSeries testing 'datasets' is a list before 'labels' is a list
ValidateSeriesListsSwapped(d, chart_type) ==
    IF ~IsDict(d)
    THEN Invalid(FStr("Data for {} chart must be a dictionary", <<PStr(chart_type)>>))
    ELSE IF ~HasKey(d, "labels")
    THEN Invalid(FStr("Data for {} chart must have 'labels' key", <<PStr(chart_type)>>))
    ELSE IF ~HasKey(d, "datasets")
    THEN Invalid(FStr("Data for {} chart must have 'datasets' key", <<PStr(chart_type)>>))
    ELSE IF ~IsList(Get(d, "datasets")) THEN Invalid(PStr("'datasets' must be a list"))
    ELSE IF ~IsList(Get(d, "labels")) THEN Invalid(PStr("'labels' must be a list"))
    ELSE SeriesDatasets(Get(d, "datasets").l, Get(d, "labels"), 1)

ValidateSeries(d, chart_type) ==
    IF ~IsDict(d)
    THEN Invalid(FStr("Data for {} chart must be a dictionary", <<PStr(chart_type)>>))
    ELSE IF ~HasKey(d, "labels")
    THEN Invalid(FStr("Data for {} chart must have 'labels' key", <<PStr(chart_type)>>))
    ELSE IF ~HasKey(d, "datasets")
    THEN Invalid(FStr("Data for {} chart must have 'datasets' key", <<PStr(chart_type)>>))
    ELSE IF ~IsList(Get(d, "labels")) THEN Invalid(PStr("'labels' must be a list"))
    ELSE IF ~IsList(Get(d, "datasets")) THEN Invalid(PStr("'datasets' must be a list"))
    ELSE SeriesDatasets(Get(d, "datasets").l, Get(d, "labels"), 1)

\* ValidateProportion without the comparison of the two lengths
ValidateProportionAnyLength(d, chart_type) ==
    IF ~IsDict(d)
    THEN Invalid(FStr("Data for {} chart must be a dictionary", <<PStr(chart_type)>>))
    ELSE IF ~HasKey(d, "labels")
    THEN Invalid(FStr("Data for {} chart must have 'labels' key", <<PStr(chart_type)>>))
    ELSE IF ~HasKey(d, "values")
    THEN Invalid(FStr("Data for {} chart must have 'values' key", <<PStr(chart_type)>>))
    ELSE IF ~IsList(Get(d, "labels")) THEN Invalid(PStr("'labels' must be a list"))
    ELSE IF ~IsList(Get(d, "values")) THEN Invalid(PStr("'values' must be a list"))
    ELSE Valid

ValidateProportion(d, chart_type) ==
    IF ~IsDict(d)
    THEN Invalid(FStr("Data for {} chart must be a dictionary", <<PStr(chart_type)>>))
    ELSE IF ~HasKey(d, "labels")
    THEN Invalid(FStr("Data for {} chart must have 'labels' key", <<PStr(chart_type)>>))
    ELSE IF ~HasKey(d, "values")
    THEN Invalid(FStr("Data for {} chart must have 'values' key", <<PStr(chart_type)>>))
    ELSE IF ~IsList(Get(d, "labels")) THEN Invalid(PStr("'labels' must be a list"))
    ELSE IF ~IsList(Get(d, "values")) THEN Invalid(PStr("'values' must be a list"))
    ELSE IF PyLen(Get(d, "values")) # PyLen(Get(d, "labels"))
    THEN Invalid(FStr("There are {} values but {} labels",
                      <<PInt(PyLen(Get(d, "values"))), PInt(PyLen(Get(d, "labels")))>>))
    ELSE Valid

ValidateScatter(d) ==
    IF ~IsDict(d) THEN Invalid(PStr("Data for scatter chart must be a dictionary"))
    ELSE IF ~HasKey(d, "datasets")
    THEN Invalid(PStr("Data for scatter chart must have 'datasets' key"))
    ELSE IF ~IsList(Get(d, "datasets")) THEN Invalid(PStr("'datasets' must be a list"))
    ELSE ScatterDatasets(Get(d, "datasets").l, 1)

\* UnsupportedChart raising, as DataTransformer.from_dataframe does
UnsupportedChartRaises(chart_type) == Raise("ValueError")

UnsupportedChart(chart_type) ==
    Invalid(FStr("Unsupported chart type: {}", <<PStr(chart_type)>>))

validate_for_chart(d, chart_type) ==
    IF chart_type \in {"line", "bar", "radar"} THEN ValidateSeries(d, chart_type)
    ELSE IF chart_type \in {"pie", "donut"} THEN ValidateProportion(d, chart_type)
    ELSE IF chart_type = "scatter" THEN ValidateScatter(d)
    ELSE UnsupportedChart(chart_type)

-----------------------------------------------------------------------------
(* DataValidator.validate_for_network                                      *)

RECURSIVE NetworkNodes(_, _)
\* the loop of data.py:156-161; None when every node passes
NetworkNodes(nodes, i) ==
    IF i > Len(nodes) THEN None
    ELSE IF ~IsDict(nodes[i]) THEN PStr("Each node must be a dictionary")
    ELSE IF ~HasKey(nodes[i], "id") THEN PStr("Each node must have an 'id' key")
    ELSE NetworkNodes(nodes, i + 1)

RECURSIVE NetworkEdgesNoTarget(_, _)
\* NetworkEdges without the test for 'target'
NetworkEdgesNoTarget(edges, i) ==
    IF i > Len(edges) THEN None
    ELSE IF ~IsDict(edges[i]) THEN PStr("Each edge must be a dictionary")
    ELSE IF ~HasKey(edges[i], "source") THEN PStr("Each edge must have a 'source' key")
    ELSE NetworkEdgesNoTarget(edges, i + 1)

RECURSIVE NetworkEdges(_, _)
\* the loop of data.py:164-172; None when every edge passes
NetworkEdges(edges, i) ==
    IF i > Len(edges) THEN None
    ELSE IF ~IsDict(edges[i]) THEN PStr("Each edge must be a dictionary")
    ELSE IF ~HasKey(edges[i], "source") THEN PStr("Each edge must have a 'source' key")
    ELSE IF ~HasKey(edges[i], "target") THEN PStr("Each edge must have a 'target' key")
    ELSE NetworkEdges(edges, i + 1)

validate_for_network(d) ==
    IF ~IsDict(d) THEN Invalid(PStr("Network data must be a dictionary"))
    ELSE IF ~HasKey(d, "nodes") THEN Invalid(PStr("Network data must have a 'nodes' key"))
    ELSE IF ~HasKey(d, "edges") THEN Invalid(PStr("Network data must have an 'edges' key"))
    ELSE IF ~IsList(Get(d, "nodes")) THEN Invalid(PStr("'nodes' must be a list"))
    ELSE IF ~IsList(Get(d, "edges")) THEN Invalid(PStr("'edges' must be a list"))
    ELSE LET badNode == NetworkNodes(Get(d, "nodes").l, 1) IN
         IF badNode # None THEN Invalid(badNode)
         ELSE LET badEdge == NetworkEdges(Get(d, "edges").l, 1) IN
              IF badEdge # None THEN Invalid(badEdge)
              ELSE Valid

-----------------------------------------------------------------------------
(* DataValidator.validate_for_3d                                           *)

RECURSIVE Scatter3dPointsNoZ(_, _)
\* Scatter3dPoints without the test for 'z'
Scatter3dPointsNoZ(points, i) ==
    IF i > Len(points) THEN Valid
    ELSE IF ~IsDict(points[i]) THEN Invalid(PStr("Each point must be a dictionary"))
    ELSE IF ~HasKey(points[i], "x") \/ ~HasKey(points[i], "y")
         THEN Invalid(PStr("Each point must have x, y, and z coordinates"))
    ELSE Scatter3dPointsNoZ(points, i + 1)

RECURSIVE Scatter3dPoints(_, _)
\* the loop of data.py:195-200
Scatter3dPoints(points, i) ==
    IF i > Len(points) THEN Valid
    ELSE IF ~IsDict(points[i]) THEN Invalid(PStr("Each point must be a dictionary"))
    ELSE IF ~HasKey(points[i], "x") \/ ~HasKey(points[i], "y") \/ ~HasKey(points[i], "z")
         THEN Invalid(PStr("Each point must have x, y, and z coordinates"))
    ELSE Scatter3dPoints(points, i + 1)

ValidateScatter3d(d) ==
    IF ~IsList(d) THEN Invalid(PStr("Scatter3D data must be a list of points"))
    ELSE Scatter3dPoints(d.l, 1)

\* data.py:215-219: len(row) of every row is taken before any comparison,
\* and len() of an unsized row raises TypeError.
SurfaceRows(rows) ==
    IF \E i \in 1..Len(rows) : ~Sized(rows[i]) THEN Raise("TypeError")
    ELSE IF Cardinality({PyLen(rows[i]) : i \in 1..Len(rows)}) > 1
         THEN Invalid(PStr("All rows in surface data must have the same length"))
    ELSE Valid

ValidateSurface3d(d) ==
    IF d.k = "callable" THEN Valid
    ELSE IF IsDict(d) /\ HasKey(d, "values")
    THEN IF ~IsList(Get(d, "values"))
         THEN Invalid(PStr("Surface data 'values' must be a list of rows"))
         ELSE SurfaceRows(Get(d, "values").l)
    ELSE Invalid(PStr("Surface3D data must be a function or a dictionary with 'values' key"))

Unsupported3d(vis_type) ==
    Invalid(FStr("Unsupported 3D visualization type: {}", <<PStr(vis_type)>>))

validate_for_3d(d, vis_type) ==
    IF vis_type = "scatter3d" THEN ValidateScatter3d(d)
    ELSE IF vis_type = "surface3d" THEN ValidateSurface3d(d)
    ELSE IF vis_type = "network3d" THEN validate_for_network(d)
    ELSE Unsupported3d(vis_type)

-----------------------------------------------------------------------------
(* NetworkDataProcessor.process.  It writes to the object it is handed:    *)
(* an operation's effect is [out |-> its outcome, heap |-> the caller's    *)
(* object after the call].                                                 *)

Effect(outcome, object) == [out |-> outcome, heap |-> object]

\* data.py:562: the keys of node_map
NodeMapKeys(nodes) == {Get(nodes[i], "id") : i \in 1..Len(nodes)}

\* data.py:565-568: edges with both ends in node_map, in their order
ValidEdgesEitherEnd(edges, ids) ==
    SelectSeq(edges, LAMBDA e : Get(e, "source") \in ids \/ Get(e, "target") \in ids)

ValidEdges(edges, ids) ==
    SelectSeq(edges, LAMBDA e : Get(e, "source") \in ids /\ Get(e, "target") \in ids)

\* DegreeGet counting an edge for the ids at both of its ends; the original
\* models data.py:574-582: in_degree / out_degree as dicts from id to count;
\* .get(node_id, 0) of data.py:586-587
DegreeGetEitherEnd(edges, end, id) ==
    Cardinality({i \in 1..Len(edges) :
        Get(edges[i], "source") = id \/ Get(edges[i], "target") = id})

\* data.py:574-582: in_degree / out_degree as dicts from id to count;
\* .get(node_id, 0) of data.py:586-587
DegreeGet(edges, end, id) ==
    Cardinality({i \in 1..Len(edges) : Get(edges[i], end) = id})

\* AnnotateNode with the two ends exchanged
AnnotateNodeSwapped(node, valid_edges) ==
    LET withIn == Put(node, "in_degree", PInt(DegreeGet(valid_edges, "source", Get(node, "id"))))
        withOut == Put(withIn, "out_degree",
                       PInt(DegreeGet(valid_edges, "target", Get(node, "id"))))
    IN  Put(withOut, "degree", PInt(Get(withOut, "in_degree").i + Get(withOut, "out_degree").i))

\* AnnotateNode adding the counts to the degrees a node already carries
AnnotateNodeAccumulating(node, valid_edges) ==
    LET Old(key) == IF HasKey(node, key) THEN Get(node, key).i ELSE 0
        withIn == Put(node, "in_degree",
                      PInt(Old("in_degree") + DegreeGet(valid_edges, "target", Get(node, "id"))))
        withOut == Put(withIn, "out_degree",
                       PInt(Old("out_degree") + DegreeGet(valid_edges, "source", Get(node, "id"))))
    IN  Put(withOut, "degree", PInt(Get(withOut, "in_degree").i + Get(withOut, "out_degree").i))

\* data.py:584-588: the three writes to one node
AnnotateNode(node, valid_edges) ==
    LET withIn == Put(node, "in_degree", PInt(DegreeGet(valid_edges, "target", Get(node, "id"))))
        withOut == Put(withIn, "out_degree",
                       PInt(DegreeGet(valid_edges, "source", Get(node, "id"))))
    IN  Put(withOut, "degree", PInt(Get(withOut, "in_degree").i + Get(withOut, "out_degree").i))

\* NetworkProcess working on a copy: the caller's object is left alone
NetworkProcessOnCopy(d) ==
    IF validate_for_network(d) # Valid THEN Effect(Raise("ValueError"), d)
    ELSE LET nodes == Get(d, "nodes").l
             valid_edges == ValidEdges(Get(d, "edges").l, NodeMapKeys(nodes))
             withEdges == Put(d, "edges", PList(valid_edges))
             result == Put(withEdges, "nodes",
                           PList([i \in 1..Len(nodes) |-> AnnotateNode(nodes[i], valid_edges)]))
         IN  Effect(Return(result), d)

\* data.py:546-590.  data["edges"] is rebound and every node dict is written
\* in place; the object returned is the object passed.
NetworkProcess(d) ==
    IF validate_for_network(d) # Valid THEN Effect(Raise("ValueError"), d)
    ELSE LET nodes == Get(d, "nodes").l
             valid_edges == ValidEdges(Get(d, "edges").l, NodeMapKeys(nodes))
             withEdges == Put(d, "edges", PList(valid_edges))
             result == Put(withEdges, "nodes",
                           PList([i \in 1..Len(nodes) |-> AnnotateNode(nodes[i], valid_edges)]))
         IN  Effect(Return(result), result)

-----------------------------------------------------------------------------
(* utils.prepare_network_data(nodes, edges), with the default key names.   *)

\* node[node_id_key] / edge[source_key]: what subscripting raises, "" if nothing
SubscriptError(v, keys) ==
    IF ~IsDict(v) THEN "TypeError"
    ELSE IF \E key \in keys : ~HasKey(v, key) THEN "KeyError"
    ELSE ""

\* utils.py:686-688: node_indices, the index of the last node of each id
NodeIndices(nodes) ==
    [id \in NodeMapKeys(nodes) |->
        CHOOSE i \in 1..Len(nodes) :
            /\ Get(nodes[i], "id") = id
            /\ \A j \in (i + 1)..Len(nodes) : Get(nodes[j], "id") # id]

\* utils.py:690-695: id and index first, then the node's other properties,
\* which overwrite a key of the same name.  Python's index is 0-based.
NormalizedNode(node, i) ==
    PDict([key \in DOMAIN node.d \cup {"id", "index"} |->
            IF key = "id" THEN Get(node, "id")
            ELSE IF key \in DOMAIN node.d THEN Get(node, key)
            ELSE PInt(i - 1)])

\* utils.py:710-720
NormalizedEdge(edge, node_indices) ==
    PDict([key \in DOMAIN edge.d \cup {"source", "source_index", "target", "target_index"} |->
            IF key = "source" THEN Get(edge, "source")
            ELSE IF key = "target" THEN Get(edge, "target")
            ELSE IF key \in DOMAIN edge.d THEN Get(edge, key)
            ELSE IF key = "source_index" THEN PInt(node_indices[Get(edge, "source")] - 1)
            ELSE PInt(node_indices[Get(edge, "target")] - 1)])

\* utils.py:702-708: the edges that are not skipped
EdgesWithNodes(edges, node_indices) ==
    SelectSeq(edges, LAMBDA e :
        ~(Get(e, "source") \notin DOMAIN node_indices
            \/ Get(e, "target") \notin DOMAIN node_indices))

\* utils.py:662-724
prepare_network_data(nodes, edges) ==
    IF \E i \in 1..Len(nodes) : SubscriptError(nodes[i], {"id"}) # ""
    THEN LET i == CHOOSE i \in 1..Len(nodes) :
                    /\ SubscriptError(nodes[i], {"id"}) # ""
                    /\ \A j \in 1..(i - 1) : SubscriptError(nodes[j], {"id"}) = ""
         IN  Raise(SubscriptError(nodes[i], {"id"}))
    ELSE LET node_indices == NodeIndices(nodes)
             BadEdge(e) == SubscriptError(e, {"source", "target"})
         IN  IF \E i \in 1..Len(edges) : BadEdge(edges[i]) # ""
             THEN LET i == CHOOSE i \in 1..Len(edges) :
                             /\ BadEdge(edges[i]) # ""
                             /\ \A j \in 1..(i - 1) : BadEdge(edges[j]) = ""
                  IN  Raise(BadEdge(edges[i]))
             ELSE LET kept == EdgesWithNodes(edges, node_indices)
                  IN  Return(PDict([
                        nodes |-> PList([i \in 1..Len(nodes) |-> NormalizedNode(nodes[i], i)]),
                        edges |-> PList([i \in 1..Len(kept) |->
                                            NormalizedEdge(kept[i], node_indices)])]))

-----------------------------------------------------------------------------
(* utils.pivot_data_for_heatmap(data, x_key, y_key, value_key)             *)

\* Python's order on the strings used as labels (one letter each, so the
\* order of their code points)
LabelOrder == <<"p", "q", "r">>
StrRank(v) == CHOOSE i \in 1..Len(LabelOrder) : LabelOrder[i] = v.s
PyLess(a, b) == IF a.k = "int" THEN a.i < b.i ELSE StrRank(a) < StrRank(b)

RECURSIVE PySorted(_)
\* sorted() of a set of labels, ascending
PySorted(S) ==
    IF S = {} THEN <<>>
    ELSE LET least == CHOOSE a \in S : \A b \in S \ {a} : PyLess(a, b)
         IN  <<least>> \o PySorted(S \ {least})

\* the distinct labels in the order in which the items first show them
RECURSIVE FirstSeen(_, _, _)
FirstSeen(items, key, i) ==
    IF i > Len(items) THEN <<>>
    ELSE IF \E j \in 1..(i - 1) : Get(items[j], key) = Get(items[i], key)
         THEN FirstSeen(items, key, i + 1)
    ELSE <<Get(items[i], key)>> \o FirstSeen(items, key, i + 1)

UniqueFirstSeen(items, key) == FirstSeen(items, key, 1)

\* utils.py:643-644: list(sorted(set(item[key] for item in data)))
UniqueSorted(items, key) == PySorted({Get(items[i], key) : i \in 1..Len(items)})

\* ZeroGrid with one row too many
ZeroGridExtraRow(x_values, y_values) ==
    [r \in 1..(Len(y_values) + 1) |-> [c \in 1..Len(x_values) |-> PInt(0)]]

\* utils.py:647: a row per y value, a zero per x value
ZeroGrid(x_values, y_values) ==
    [r \in 1..Len(y_values) |-> [c \in 1..Len(x_values) |-> PInt(0)]]

\* utils.py:650-651: the index of a label in its list
IndexOf(labels, v) == CHOOSE i \in 1..Len(labels) : labels[i] = v

RECURSIVE FillKeepFirst(_, _, _, _, _, _)
\* FillValues that leaves a cell alone once a record has set it
FillKeepFirst(values, items, keys, x_values, y_values, i) ==
    IF i > Len(items) THEN values
    ELSE LET x_idx == IndexOf(x_values, Get(items[i], keys[1]))
             y_idx == IndexOf(y_values, Get(items[i], keys[2]))
             seen == \E j \in 1..(i - 1) :
                        /\ Get(items[j], keys[1]) = Get(items[i], keys[1])
                        /\ Get(items[j], keys[2]) = Get(items[i], keys[2])
         IN  FillKeepFirst(
                IF seen THEN values
                ELSE [values EXCEPT ![y_idx][x_idx] = Get(items[i], keys[3])],
                items, keys, x_values, y_values, i + 1)

RECURSIVE FillValues(_, _, _, _, _, _)
\* utils.py:654-657: the loop from item i on; keys = <<x_key, y_key, value_key>>
FillValues(values, items, keys, x_values, y_values, i) ==
    IF i > Len(items) THEN values
    ELSE LET x_idx == IndexOf(x_values, Get(items[i], keys[1]))
             y_idx == IndexOf(y_values, Get(items[i], keys[2]))
         IN  FillValues([values EXCEPT ![y_idx][x_idx] = Get(items[i], keys[3])],
                        items, keys, x_values, y_values, i + 1)

\* what item[key] raises in the three passes over the items, "" if nothing:
\* the x pass (utils.py:643) meets every item before the y pass (644) and the
\* fill (654-657) do
PivotError(items, keys) ==
    IF \E i \in 1..Len(items) : SubscriptError(items[i], {keys[1]}) # ""
    THEN LET i == CHOOSE i \in 1..Len(items) :
                    /\ SubscriptError(items[i], {keys[1]}) # ""
                    /\ \A j \in 1..(i - 1) : SubscriptError(items[j], {keys[1]}) = ""
         IN  SubscriptError(items[i], {keys[1]})
    ELSE IF \E i \in 1..Len(items) : SubscriptError(items[i], {keys[2], keys[3]}) # ""
         THEN "KeyError"
    ELSE ""

\* utils.py:624-659
pivot_data_for_heatmap(items, keys) ==
    IF PivotError(items, keys) # "" THEN Raise(PivotError(items, keys))
    ELSE LET x_values == UniqueSorted(items, keys[1])
             y_values == UniqueSorted(items, keys[2])
             values == FillValues(ZeroGrid(x_values, y_values), items, keys,
                                  x_values, y_values, 1)
         IN  Return(PDict([
                x_labels |-> PList(x_values),
                y_labels |-> PList(y_values),
                values |-> PList([r \in 1..Len(values) |-> PList(values[r])])]))

-----------------------------------------------------------------------------
(* utils.normalize_data(data, min_val, max_val, out_min, out_max).         *)
(* A float is a binary floating-point number of FloatBits significant bits *)
(* held as the fraction num/den in lowest terms (den > 0), or an infinity  *)
(* (num = 1 or -1, den = 0), or nan (0/0).  Every operation rounds its     *)
(* exact result to nearest, ties to even, and overflows to an infinity, as *)
(* IEEE 754 arithmetic does; the format is narrower than a double.         *)

FloatBits == 3      \* bits of the significand
FloatMaxExp == 9    \* largest exponent of the last significand bit

RECURSIVE Gcd(_, _)
Gcd(a, b) == IF b = 0 THEN a ELSE Gcd(b, a % b)
Abs(a) == IF a < 0 THEN -a ELSE a
RECURSIVE Pow2(_)
Pow2(e) == IF e = 0 THEN 1 ELSE 2 * Pow2(e - 1)

\* a finite float, given as any fraction with den # 0
PFloat(num, den) ==
    LET g == Gcd(Abs(num), Abs(den))
        sign == IF den < 0 THEN -1 ELSE 1
    IN  [k |-> "float", num |-> sign * (num \div g), den |-> sign * (den \div g)]
Inf(sign) == [k |-> "float", num |-> sign, den |-> 0]
NaN == [k |-> "float", num |-> 0, den |-> 0]

\* sys.float_info.max, and the exponent of the smallest subnormal
MaxFloat == (Pow2(FloatBits) - 1) * Pow2(FloatMaxExp)
FloatMinExp == 0 - (FloatMaxExp + FloatBits)

Num(v) == IF v.k = "int" THEN v.i ELSE v.num
Den(v) == IF v.k = "int" THEN 1 ELSE v.den
IsNaN(v) == Num(v) = 0 /\ Den(v) = 0
IsInf(v) == Num(v) # 0 /\ Den(v) = 0
Sign(v) == IF Num(v) < 0 THEN -1 ELSE IF Num(v) > 0 THEN 1 ELSE 0

\* a / b rounded to an integer, to nearest and ties to even (a >= 0, b > 0)
HalfEven(a, b) ==
    LET q == a \div b
        rest == a % b
    IN  IF 2 * rest < b THEN q
        ELSE IF 2 * rest > b THEN q + 1
        ELSE IF q % 2 = 0 THEN q ELSE q + 1

\* the float nearest to the exact value num/den (den > 0)
Round(num, den) ==
    IF num = 0 THEN PFloat(0, 1)
    ELSE LET a == Abs(num)
             sign == IF num < 0 THEN -1 ELSE 1
             Fits(e) ==
                 IF e >= 0 THEN a < Pow2(FloatBits) * Pow2(e) * den
                 ELSE a * Pow2(0 - e) < Pow2(FloatBits) * den
             exps == {e \in FloatMinExp..FloatMaxExp : Fits(e)}
         IN  IF exps = {} THEN Inf(sign)
             ELSE LET e == CHOOSE x \in exps : \A y \in exps : x <= y
                      m == IF e >= 0 THEN HalfEven(a, den * Pow2(e))
                           ELSE HalfEven(a * Pow2(0 - e), den)
                  IN  IF m = Pow2(FloatBits) /\ e = FloatMaxExp THEN Inf(sign)
                      ELSE IF e >= 0 THEN PFloat(sign * m * Pow2(e), 1)
                      ELSE PFloat(sign * m, Pow2(0 - e))

\* float(x) of an int
ToFloat(v) == IF v.k = "int" THEN Round(v.i, 1) ELSE v
BothInt(a, b) == a.k = "int" /\ b.k = "int"

\* ==, <: nan equals nothing and is less than nothing
NumEq(a, b) ==
    IF IsNaN(a) \/ IsNaN(b) THEN FALSE
    ELSE IF IsInf(a) \/ IsInf(b) THEN IsInf(a) /\ IsInf(b) /\ Sign(a) = Sign(b)
    ELSE Num(a) * Den(b) = Num(b) * Den(a)
NumLess(a, b) ==
    IF IsNaN(a) \/ IsNaN(b) THEN FALSE
    ELSE IF IsInf(a) THEN Sign(a) < 0 /\ ~(IsInf(b) /\ Sign(b) < 0)
    ELSE IF IsInf(b) THEN Sign(b) > 0
    ELSE Num(a) * Den(b) < Num(b) * Den(a)

\* +, -, *: exact on two ints, rounded once a float takes part
NumAdd(a, b) ==
    IF BothInt(a, b) THEN PInt(a.i + b.i)
    ELSE IF IsNaN(a) \/ IsNaN(b) THEN NaN
    ELSE IF IsInf(a) /\ IsInf(b) THEN (IF Sign(a) = Sign(b) THEN a ELSE NaN)
    ELSE IF IsInf(a) THEN Inf(Sign(a))
    ELSE IF IsInf(b) THEN Inf(Sign(b))
    ELSE Round(Num(a) * Den(b) + Num(b) * Den(a), Den(a) * Den(b))
Neg(a) == IF a.k = "int" THEN PInt(0 - a.i) ELSE [a EXCEPT !.num = 0 - a.num]
NumSub(a, b) == NumAdd(a, Neg(b))
NumMul(a, b) ==
    IF BothInt(a, b) THEN PInt(a.i * b.i)
    ELSE IF IsNaN(a) \/ IsNaN(b) THEN NaN
    ELSE IF IsInf(a) \/ IsInf(b)
         THEN (IF Sign(a) * Sign(b) = 0 THEN NaN ELSE Inf(Sign(a) * Sign(b)))
    ELSE Round(Num(a) * Num(b), Den(a) * Den(b))
\* a / b for b # 0: always a float
NumDiv(a, b) ==
    IF IsNaN(a) \/ IsNaN(b) THEN NaN
    ELSE IF IsInf(a) THEN (IF IsInf(b) THEN NaN ELSE Inf(Sign(a) * Sign(b)))
    ELSE IF IsInf(b) THEN PFloat(0, 1)
    ELSE Round(Sign(b) * Num(a) * Den(b), Den(a) * Abs(Num(b)))

PyMin(q) == CHOOSE a \in SeqRange(q) : \A b \in SeqRange(q) : ~NumLess(b, a)
PyMax(q) == CHOOSE a \in SeqRange(q) : \A b \in SeqRange(q) : ~NumLess(a, b)

\* utils.py:618-621: the list of the rescaled values; a zero divisor raises
Rescale(values, min_val, max_val, bounds) ==
    IF NumEq(NumSub(max_val, min_val), PInt(0)) THEN Raise("ZeroDivisionError")
    ELSE Return(PList([i \in 1..Len(values) |->
            NumAdd(bounds.out_min,
                   NumDiv(NumMul(NumSub(bounds.out_max, bounds.out_min),
                                 NumSub(values[i], min_val)),
                          NumSub(max_val, min_val)))]))

\* normalize_data without the test of utils.py:615-616
normalize_dataUnguarded(values, bounds) ==
    IF Len(values) = 0 THEN Return(PList(<<>>))
    ELSE LET min_val == IF bounds.min_val # None THEN bounds.min_val ELSE PyMin(values)
             max_val == IF bounds.max_val # None THEN bounds.max_val ELSE PyMax(values)
         IN  Rescale(values, min_val, max_val, bounds)

\* utils.py:588-621; bounds = [min_val, max_val, out_min, out_max]
normalize_data(values, bounds) ==
    IF Len(values) = 0 THEN Return(PList(<<>>))
    ELSE LET min_val == IF bounds.min_val # None THEN bounds.min_val ELSE PyMin(values)
             max_val == IF bounds.max_val # None THEN bounds.max_val ELSE PyMax(values)
         IN  IF NumEq(max_val, min_val)
             THEN Return(PList([i \in 1..Len(values) |-> bounds.out_min]))
             ELSE Rescale(values, min_val, max_val, bounds)

-----------------------------------------------------------------------------
(* DataTransformer.from_dataframe.  A DataFrame is its column names and    *)
(* its rows, each row a function from the column names to the cells.       *)

DataFrame(columns, rows) == [k |-> "DataFrame", columns |-> columns, rows |-> rows]
HasColumn(df, c) == \E i \in 1..Len(df.columns) : df.columns[i] = c
\* df[c].tolist()
ColumnList(df, c) == [i \in 1..Len(df.rows) |-> df.rows[i][c]]

\* data.py:266-269: the effective y_columns, as column names
EffectiveY(df, x, y_columns) ==
    IF y_columns = None THEN SelectSeq(df.columns, LAMBDA c : c # x)
    ELSE IF y_columns.k = "str" THEN <<y_columns.s>>
    ELSE [i \in 1..Len(y_columns.l) |-> y_columns.l[i].s]

\* SeriesFromTable with the datasets in the reverse of the y_columns order
SeriesFromTableReversed(df, x, ys) ==
    IF ~HasColumn(df, x) \/ \E i \in 1..Len(ys) : ~HasColumn(df, ys[i])
    THEN Raise("KeyError")
    ELSE Return(PDict([
            labels |-> PList(ColumnList(df, x)),
            datasets |-> PList([i \in 1..Len(ys) |->
                PDict([label |-> PStr(ys[Len(ys) + 1 - i]),
                       data |-> PList(ColumnList(df, ys[Len(ys) + 1 - i]))])])]))

\* data.py:271-285
SeriesFromTable(df, x, ys) ==
    IF ~HasColumn(df, x) \/ \E i \in 1..Len(ys) : ~HasColumn(df, ys[i])
    THEN Raise("KeyError")
    ELSE Return(PDict([
            labels |-> PList(ColumnList(df, x)),
            datasets |-> PList([i \in 1..Len(ys) |->
                PDict([label |-> PStr(ys[i]), data |-> PList(ColumnList(df, ys[i]))])])]))

\* data.py:287-295
ProportionFromTable(df, x, ys) ==
    IF Len(ys) = 0 /\ Len(df.columns) < 2 THEN Raise("IndexError")
    ELSE LET y_col == IF Len(ys) > 0 THEN ys[1] ELSE df.columns[2]
         IN  IF ~HasColumn(df, x) \/ ~HasColumn(df, y_col) THEN Raise("KeyError")
             ELSE Return(PDict([labels |-> PList(ColumnList(df, x)),
                                values |-> PList(ColumnList(df, y_col))]))

\* ScatterFromTable with points that hold 'x' only
ScatterFromTableNoY(df, x, ys) ==
    IF Len(ys) > 0 /\ Len(df.rows) > 0
        /\ (~HasColumn(df, x) \/ \E i \in 1..Len(ys) : ~HasColumn(df, ys[i]))
    THEN Raise("KeyError")
    ELSE Return(PDict([
            datasets |-> PList([i \in 1..Len(ys) |->
                PDict([label |-> PStr(ys[i]),
                       data |-> PList([r \in 1..Len(df.rows) |->
                            PDict([x |-> ToFloat(df.rows[r][x])])])])])]))

\* data.py:297-316: row[x_column] and row[col] are read only inside the two
\* loops, so a missing column goes unnoticed without a row or without a y
ScatterFromTable(df, x, ys) ==
    IF Len(ys) > 0 /\ Len(df.rows) > 0
        /\ (~HasColumn(df, x) \/ \E i \in 1..Len(ys) : ~HasColumn(df, ys[i]))
    THEN Raise("KeyError")
    ELSE Return(PDict([
            datasets |-> PList([i \in 1..Len(ys) |->
                PDict([label |-> PStr(ys[i]),
                       data |-> PList([r \in 1..Len(df.rows) |->
                            PDict([x |-> ToFloat(df.rows[r][x]),
                                   y |-> ToFloat(df.rows[r][ys[i]])])])])])]))

\* DataFrame.pivot(index, columns, values).fillna(0): the sorted distinct
\* index and column values and the cells; ValueError when two rows share an
\* (index, column) pair.  With a missing cell the values are float64.
PivotTable(df, index, columns, values) ==
    IF \E c \in {index, columns, values} : ~HasColumn(df, c) THEN Raise("KeyError")
    ELSE IF \E i \in 1..Len(df.rows) : \E j \in (i + 1)..Len(df.rows) :
                df.rows[i][index] = df.rows[j][index]
                    /\ df.rows[i][columns] = df.rows[j][columns]
    THEN Raise("ValueError")
    ELSE LET x_labels == PySorted({df.rows[i][columns] : i \in 1..Len(df.rows)})
             y_labels == PySorted({df.rows[i][index] : i \in 1..Len(df.rows)})
             Hit(r, c) == {i \in 1..Len(df.rows) :
                             df.rows[i][index] = y_labels[r]
                                 /\ df.rows[i][columns] = x_labels[c]}
             missing == \E r \in 1..Len(y_labels), c \in 1..Len(x_labels) : Hit(r, c) = {}
             Cell(r, c) ==
                 IF Hit(r, c) = {} THEN PFloat(0, 1)
                 ELSE LET v == df.rows[CHOOSE i \in Hit(r, c) : TRUE][values]
                      IN  IF missing THEN ToFloat(v) ELSE v
         IN  Return(PDict([
                x_labels |-> PList(x_labels),
                y_labels |-> PList(y_labels),
                values |-> PList([r \in 1..Len(y_labels) |->
                    PList([c \in 1..Len(x_labels) |-> Cell(r, c)])])]))

\* data.py:318-334
HeatmapFromTable(df, x, ys) ==
    IF Len(ys) < 2 THEN Raise("ValueError")
    ELSE PivotTable(df, ys[1], x, ys[2])

\* data.py:240-340; args = [x_column, y_columns, chart_type]
from_dataframe(df, args) ==
    IF df.k # "DataFrame" THEN Raise("TypeError")
    ELSE IF args.x_column = None /\ Len(df.columns) = 0 THEN Raise("IndexError")
    ELSE LET x == IF args.x_column = None THEN df.columns[1] ELSE args.x_column.s
             ys == EffectiveY(df, x, args.y_columns)
         IN  IF args.chart_type \in {"line", "bar", "radar"} THEN SeriesFromTable(df, x, ys)
             ELSE IF args.chart_type \in {"pie", "donut"} THEN ProportionFromTable(df, x, ys)
             ELSE IF args.chart_type = "scatter" THEN ScatterFromTable(df, x, ys)
             ELSE IF args.chart_type = "heatmap" THEN HeatmapFromTable(df, x, ys)
             ELSE Raise("ValueError")

-----------------------------------------------------------------------------
(* DataTransformer.from_dataframe_to_network                               *)

\* AllNodeIds without the ids of the target column
AllNodeIdsSourcesOnly(df, source_col, target_col) ==
    {df.rows[i][source_col] : i \in 1..Len(df.rows)}

\* data.py:369-371: the ids found in the two columns
AllNodeIds(df, source_col, target_col) ==
    {df.rows[i][source_col] : i \in 1..Len(df.rows)}
        \cup {df.rows[i][target_col] : i \in 1..Len(df.rows)}

\* the orders list(set) may give: a set has no order of its own
SetOrders(S) ==
    {q \in [1..Cardinality(S) -> S] : \A i, j \in 1..Cardinality(S) : i # j => q[i] # q[j]}

\* an attribute mapping (name -> column), None or empty when there is none
HasAttrs(attrs) == attrs # None /\ DOMAIN attrs.d # {}
AttrsIn(df, attrs) ==
    IF HasAttrs(attrs) THEN {a \in DOMAIN attrs.d : HasColumn(df, Get(attrs, a).s)} ELSE {}

\* NetworkNode taking the attributes from the last row whose source is the id
NetworkNodeLastRow(df, node_id, source_col, node_attrs) ==
    LET node_rows == {i \in 1..Len(df.rows) : df.rows[i][source_col] = node_id}
        names == IF node_rows = {} THEN {} ELSE AttrsIn(df, node_attrs)
        last == CHOOSE i \in node_rows : \A j \in node_rows : i >= j
    IN  PDict([key \in names \cup {"id"} |->
            IF key \in names THEN df.rows[last][Get(node_attrs, key).s] ELSE node_id])

\* data.py:375-386: attributes come from the first row whose source is the id
NetworkNode(df, node_id, source_col, node_attrs) ==
    LET node_rows == {i \in 1..Len(df.rows) : df.rows[i][source_col] = node_id}
        names == IF node_rows = {} THEN {} ELSE AttrsIn(df, node_attrs)
        first == CHOOSE i \in node_rows : \A j \in node_rows : i <= j
    IN  PDict([key \in names \cup {"id"} |->
            IF key \in names THEN df.rows[first][Get(node_attrs, key).s] ELSE node_id])

\* data.py:390-406
NetworkEdge(df, row, cols) ==
    LET names == AttrsIn(df, cols.edge_attrs)
        weighted == cols.weight_col # None /\ HasColumn(df, cols.weight_col.s)
        keys == names \cup {"source", "target"} \cup (IF weighted THEN {"weight"} ELSE {})
    IN  PDict([key \in keys |->
            IF key \in names THEN row[Get(cols.edge_attrs, key).s]
            ELSE IF key = "source" THEN row[cols.source_col]
            ELSE IF key = "target" THEN row[cols.target_col]
            ELSE row[cols.weight_col.s]])

\* data.py:343-411; cols = [source_col, target_col, weight_col, node_attrs,
\* edge_attrs]; all_nodes is the order list(set) gave
from_dataframe_to_network(df, cols, all_nodes) ==
    IF df.k # "DataFrame" THEN Raise("TypeError")
    ELSE IF ~HasColumn(df, cols.source_col) \/ ~HasColumn(df, cols.target_col)
    THEN Raise("KeyError")
    ELSE Return(PDict([
            nodes |-> PList([i \in 1..Len(all_nodes) |->
                NetworkNode(df, all_nodes[i], cols.source_col, cols.node_attrs)]),
            edges |-> PList([i \in 1..Len(df.rows) |-> NetworkEdge(df, df.rows[i], cols)])]))

-----------------------------------------------------------------------------
(* ChartDataProcessor(chart_type).process(data)                            *)

RECURSIVE PySum(_, _)
\* sum() of the first len elements: 0 + q[1] + ... + q[len], left to right
PySum(q, len) == IF len = 0 THEN PInt(0) ELSE NumAdd(PySum(q, len - 1), q[len])

RECURSIVE SortedDescending(_)
\* sorted(pairs, key=lambda x: x[1], reverse=True): by value, the greatest
\* first, pairs of equal value in their input order
SortedDescending(pairs) ==
    IF Len(pairs) = 0 THEN <<>>
    ELSE LET i == CHOOSE i \in 1..Len(pairs) :
                    /\ \A j \in 1..Len(pairs) : ~NumLess(pairs[i][2], pairs[j][2])
                    /\ \A j \in 1..(i - 1) : NumLess(pairs[j][2], pairs[i][2])
             rest == [j \in 1..(Len(pairs) - 1) |-> IF j < i THEN pairs[j] ELSE pairs[j + 1]]
         IN  <<pairs[i]>> \o SortedDescending(rest)

\* data.py:522-531.  sum() raises TypeError on what cannot be added to 0,
\* len() on what has no length; data["labels"], data["values"] =
\* zip(*sorted_data) binds the two entries to tuples.
ProcessProportion(d) ==
    LET labels == Get(d, "labels").l
        values == Get(d, "values").l
        sort == IF HasKey(d, "sort") THEN Get(d, "sort") ELSE PStr("")
        sorted_data == SortedDescending([i \in 1..Len(values) |-> <<labels[i], values[i]>>])
        withLabels == Put(d, "labels", PTuple([i \in 1..Len(sorted_data) |-> sorted_data[i][1]]))
        sorted == Put(withLabels, "values",
                      PTuple([i \in 1..Len(sorted_data) |-> sorted_data[i][2]]))
    IN  IF \E i \in 1..Len(values) : values[i].k \notin {"int", "float"}
        THEN Effect(Raise("TypeError"), d)
        ELSE IF NumEq(PySum(values, Len(values)), PInt(0)) THEN Effect(Raise("ValueError"), d)
        ELSE IF ~Sized(sort) THEN Effect(Raise("TypeError"), d)
        ELSE IF PyLen(sort) > 0 /\ sort = PStr("descending") THEN Effect(Return(sorted), sorted)
        ELSE Effect(Return(d), d)

\* data.py:506-540: the object returned is the object passed
ChartProcess(d, chart_type) ==
    IF validate_for_chart(d, chart_type) # Valid THEN Effect(Raise("ValueError"), d)
    ELSE IF chart_type \in {"pie", "donut"} THEN ProcessProportion(d)
    ELSE Effect(Return(d), d)

-----------------------------------------------------------------------------
(* ThreeDDataProcessor(vis_type).process(data)                             *)

NormalizeThreshold == 1000
NormalizeTarget == 100

\* data.py:622-635: max() of an empty list raises ValueError, abs() of what
\* is no number raises TypeError; large clouds are scaled in place
ProcessScatter3d(d) ==
    LET points == d.l
        axes == <<"x", "y", "z">>
        abs(v) == IF v.k = "int" THEN PInt(Abs(v.i)) ELSE [v EXCEPT !.num = Abs(v.num)]
        max_val == PyMax([a \in 1..3 |->
                        PyMax([i \in 1..Len(points) |-> abs(Get(points[i], axes[a]))])])
        normalize_factor == NumDiv(PInt(NormalizeTarget), max_val)
        Scaled(point) ==
            PDict([key \in DOMAIN point.d |->
                    IF key \in {"x", "y", "z"} THEN NumMul(ToFloat(Get(point, key)), normalize_factor)
                    ELSE Get(point, key)])
        scaled == PList([i \in 1..Len(points) |-> Scaled(points[i])])
    IN  IF Len(points) = 0 THEN Effect(Raise("ValueError"), d)
        ELSE IF \E a \in 1..3 : \E i \in 1..Len(points) :
                    Get(points[i], axes[a]).k \notin {"int", "float"}
             THEN Effect(Raise("TypeError"), d)
        ELSE IF NumLess(PInt(NormalizeThreshold), max_val) THEN Effect(Return(scaled), scaled)
        ELSE Effect(Return(d), d)

\* data.py:637-645: x_range and y_range are added to a dict that lacks them;
\* values[0] of an empty list raises IndexError
ProcessSurface3d(d) ==
    IF ~(IsDict(d) /\ HasKey(d, "values")) THEN Effect(Return(d), d)
    ELSE LET values == Get(d, "values").l
             withX == IF HasKey(d, "x_range") THEN d
                      ELSE Put(d, "x_range", PList(<<PInt(0), PInt(PyLen(values[1]))>>))
             withY == IF HasKey(withX, "y_range") THEN withX
                      ELSE Put(withX, "y_range", PList(<<PInt(0), PInt(Len(values))>>))
         IN  IF ~HasKey(d, "x_range") /\ Len(values) = 0 THEN Effect(Raise("IndexError"), d)
             ELSE Effect(Return(withY), withY)

\* data.py:605-647; what validate_for_3d raises goes on to the caller
ThreeDProcess(d, vis_type) ==
    LET checked == validate_for_3d(d, vis_type) IN
    IF checked.kind = "raise" THEN Effect(checked, d)
    ELSE IF checked # Valid THEN Effect(Raise("ValueError"), d)
    ELSE IF vis_type = "scatter3d" THEN ProcessScatter3d(d)
    ELSE IF vis_type = "surface3d" THEN ProcessSurface3d(d)
    ELSE Effect(Return(d), d)

-----------------------------------------------------------------------------
(* Inputs of the validators: well-formed and malformed values of every     *)
(* shape the checks distinguish.                                           *)

MaxLen == 1       \* labels, values, points per dataset, cells per row
MaxItems == 2     \* datasets, nodes, edges, rows, 3D points
MaxCalls == 2     \* calls a caller makes on one object

SeqsUpTo(S, m) == UNION {[1..i -> S] : i \in 0..m}
ListsUpTo(S, m) == {PList(q) : q \in SeqsUpTo(S, m)}

Scalars == {None, PInt(7), PStr("s")}

Point2(keys) == PDict([key \in keys |-> PInt(1)])
ChartPoints == {PInt(7), Point2({"x"}), Point2({"y"}), Point2({"x", "y"})}
DataFields == {PStr("s")} \cup ListsUpTo(ChartPoints, MaxLen)
DatasetKinds ==
    {PInt(7), PDict([label |-> PStr("a")])}
        \cup {PDict([label |-> PStr("a"), data |-> f]) : f \in DataFields}
DatasetsFields == {None} \cup ListsUpTo(DatasetKinds, MaxItems)
LabelFields == {None} \cup ListsUpTo({PStr("a")}, MaxLen)
ValueFields == {None} \cup ListsUpTo({PInt(1)}, MaxLen)

SeriesDicts ==
    {PDict(EmptyMap)}
        \cup {PDict([labels |-> l]) : l \in LabelFields}
        \cup {PDict([datasets |-> d]) : d \in DatasetsFields}
        \cup {PDict([labels |-> l, datasets |-> d]) : l \in LabelFields, d \in DatasetsFields}
ProportionDicts ==
    {PDict([labels |-> l, values |-> v]) : l \in LabelFields, v \in ValueFields}

Points3 == {PInt(7), Point2({"x", "y"}), Point2({"x", "y", "z"})}
PointClouds == ListsUpTo(Points3, MaxItems)
RowKinds == {PInt(7)} \cup ListsUpTo({PInt(1)}, MaxLen)
Surfaces ==
    {PCallable, PDict([values |-> None])}
        \cup {PDict([values |-> r]) : r \in ListsUpTo(RowKinds, MaxItems)}

Node(id) == PDict([id |-> PStr(id)])
Edge(s, t) == PDict([source |-> PStr(s), target |-> PStr(t)])
NodeKinds == {PInt(7), PDict([name |-> PStr("A")]), Node("A")}
EdgeKinds ==
    {PInt(7), PDict([source |-> PStr("A")]), PDict([target |-> PStr("A")]),
     Edge("A", "A"), Edge("A", "Z")}
NodesFields == {None} \cup ListsUpTo(NodeKinds, MaxItems)
EdgesFields == {None} \cup ListsUpTo(EdgeKinds, MaxItems)
RawGraphs ==
    {PDict([nodes |-> ns]) : ns \in NodesFields}
        \cup {PDict([edges |-> es]) : es \in EdgesFields}
        \cup {PDict([nodes |-> ns, edges |-> es]) : ns \in NodesFields, es \in EdgesFields}

ValidatorInputs ==
    Scalars \cup SeriesDicts \cup ProportionDicts \cup PointClouds \cup Surfaces
        \cup RawGraphs

ChartTypes == {"line", "bar", "radar", "pie", "donut", "scatter"}
ThreeDTypes == {"scatter3d", "surface3d", "network3d"}
\* names outside the recognised ones: a chart type only from_dataframe knows,
\* and a name nobody knows
OtherTypes == {"heatmap", "mesh3d"}

-----------------------------------------------------------------------------
(* The validators as calls.                                                *)

InitValidator ==
    /\ fn \in {"validate_for_chart", "validate_for_network", "validate_for_3d"}
    /\ arg \in CASE fn = "validate_for_chart" -> ChartTypes \cup OtherTypes
                 [] fn = "validate_for_3d" -> ThreeDTypes \cup OtherTypes
                 [] OTHER -> {"-"}
    /\ data \in ValidatorInputs
    /\ prev = data
    /\ ret = NotCalled
    /\ n = 0

Call(outcome) ==
    /\ n < MaxCalls
    /\ ret' = outcome
    /\ prev' = data
    /\ n' = n + 1
    /\ UNCHANGED <<fn, arg>>

ValidateForChart ==
    /\ fn = "validate_for_chart" /\ n = 0
    /\ Call(validate_for_chart(data, arg))
    /\ UNCHANGED data

ValidateForNetwork ==
    /\ fn = "validate_for_network" /\ n = 0
    /\ Call(validate_for_network(data))
    /\ UNCHANGED data

ValidateFor3d ==
    /\ fn = "validate_for_3d" /\ n = 0
    /\ Call(validate_for_3d(data, arg))
    /\ UNCHANGED data

\* a validator is called once
NextValidator == ValidateForChart \/ ValidateForNetwork \/ ValidateFor3d

SpecValidator == InitValidator /\ [][NextValidator]_vars

-----------------------------------------------------------------------------
(* Graphs handed to NetworkDataProcessor.process and prepare_network_data. *)

MaxNodes == 2
MaxEdges == 3

GraphIds == {"A", "B"}
\* an edge may name an id that no node carries
EdgeEnds == GraphIds \cup {"Z"}
GraphNodes == {Node(id) : id \in GraphIds}
GraphEdges == {Edge(s, t) : s \in EdgeEnds, t \in EdgeEnds}

IsGraph(d) ==
    \E i \in 0..MaxNodes, j \in 0..MaxEdges :
        \E ns \in [1..i -> GraphNodes], es \in [1..j -> GraphEdges] :
            d = PDict([nodes |-> PList(ns), edges |-> PList(es)])

GraphOf(ids, ends) ==
    PDict([nodes |-> PList([i \in 1..Len(ids) |-> Node(ids[i])]),
           edges |-> PList([i \in 1..Len(ends) |-> Edge(ends[i][1], ends[i][2])])])

\* the graph of the degree example: nodes A, B, C, edges (A,B), (B,C), (A,C)
TriangleGraph == GraphOf(<<"A", "B", "C">>, << <<"A", "B">>, <<"B", "C">>, <<"A", "C">> >>)
\* the graph of the unknown-target example: nodes A, B, the edge (A,Z)
DanglingGraph == GraphOf(<<"A", "B">>, << <<"A", "Z">> >>)

\* a node that carries an 'index' entry of its own, after a node without one
IndexedGraph ==
    PDict([nodes |-> PList(<<Node("B"), PDict([id |-> PStr("A"), index |-> PInt(7)])>>),
           edges |-> PList(<<Edge("A", "B")>>)])

InitNetwork ==
    /\ fn \in {"NetworkDataProcessor.process", "prepare_network_data"}
    /\ arg = "-"
    /\ \/ IsGraph(data)
       \/ data \in RawGraphs
       \/ data \in {TriangleGraph, DanglingGraph, IndexedGraph}
    /\ prev = data
    /\ ret = NotCalled
    /\ n = 0

\* process(data): the caller may hand the object it holds to process again
NetworkDataProcessorProcess ==
    /\ fn = "NetworkDataProcessor.process"
    /\ LET effect == NetworkProcess(data)
       IN  Call(effect.out) /\ data' = effect.heap

\* prepare_network_data(data["nodes"], data["edges"]) of a graph the caller holds
PrepareNetworkData ==
    /\ fn = "prepare_network_data" /\ n = 0
    /\ IsDict(data) /\ ListField(data, "nodes") /\ ListField(data, "edges")
    /\ Call(prepare_network_data(Get(data, "nodes").l, Get(data, "edges").l))
    /\ UNCHANGED data

NextNetwork == NetworkDataProcessorProcess \/ PrepareNetworkData

SpecNetwork == InitNetwork /\ [][NextNetwork]_vars

-----------------------------------------------------------------------------
(* Records handed to pivot_data_for_heatmap.                               *)

MaxRecords == 3

PivotKeys == <<"x", "y", "v">>
PivotLabels == {"p", "q"}
PivotValues == {1, 5}
Record(x, y, v) == PDict([x |-> PStr(x), y |-> PStr(y), v |-> PInt(v)])
RecordKinds ==
    {Record(x, y, v) : x \in PivotLabels, y \in PivotLabels, v \in PivotValues}
        \cup {PInt(7), PDict([x |-> PStr("p"), y |-> PStr("q")]), PDict([y |-> PStr("q"), v |-> PInt(1)])}

InitPivot ==
    /\ fn = "pivot_data_for_heatmap"
    /\ arg = PivotKeys
    /\ \E i \in 0..MaxRecords : \E q \in [1..i -> RecordKinds] : data = PList(q)
    /\ prev = data
    /\ ret = NotCalled
    /\ n = 0

PivotDataForHeatmap ==
    /\ fn = "pivot_data_for_heatmap" /\ n = 0
    /\ Call(pivot_data_for_heatmap(data.l, arg))
    /\ UNCHANGED data

NextPivot == PivotDataForHeatmap

SpecPivot == InitPivot /\ [][NextPivot]_vars

-----------------------------------------------------------------------------
(* Tables handed to DataTransformer.                                       *)

MaxRows == 2

\* the tables have the first columns of t, a, b
TableColumns == <<"t", "a", "b">>
TableCells == {PInt(1), PInt(2)}
Prefix(q, len) == [i \in 1..len |-> q[i]]
IsTable(d) ==
    \E width \in 0..Len(TableColumns), height \in 0..MaxRows :
        /\ width = 0 => height = 0
        /\ \E rows \in [1..height -> [{TableColumns[i] : i \in 1..width} -> TableCells]] :
              d = DataFrame(Prefix(TableColumns, width), rows)

\* a column that exists, one that may not, and none given
XColumns == {None, PStr("t"), PStr("zz")}
YColumns ==
    {None, PStr("a"), PList(<<>>), PList(<<PStr("a"), PStr("b")>>),
     PList(<<PStr("b"), PStr("a")>>)}
TableChartTypes == ChartTypes \cup {"heatmap", "network", "tree", "mesh3d"}

InitFromDataframe ==
    /\ fn = "from_dataframe"
    /\ arg \in [x_column : XColumns, y_columns : YColumns, chart_type : TableChartTypes]
    /\ IsTable(data) \/ data = PList(<<>>)
    /\ prev = data
    /\ ret = NotCalled
    /\ n = 0

AttrMaps == {None, PDict(EmptyMap), PDict([group |-> PStr("b")])}

InitFromDataframeToNetwork ==
    /\ fn = "from_dataframe_to_network"
    /\ arg \in [source_col : {"t", "zz"}, target_col : {"a"}, weight_col : {None, PStr("b")},
                node_attrs : AttrMaps, edge_attrs : AttrMaps]
    /\ IsTable(data) \/ data = PList(<<>>)
    /\ prev = data
    /\ ret = NotCalled
    /\ n = 0

FromDataframe ==
    /\ fn = "from_dataframe" /\ n = 0
    /\ Call(from_dataframe(data, arg))
    /\ UNCHANGED data

\* list(set) of data.py:371 may give the ids in any order
FromDataframeToNetwork ==
    /\ fn = "from_dataframe_to_network" /\ n = 0
    /\ \E all_nodes \in
            IF data.k = "DataFrame" /\ HasColumn(data, arg.source_col)
                /\ HasColumn(data, arg.target_col)
            THEN SetOrders(AllNodeIds(data, arg.source_col, arg.target_col))
            ELSE {<<>>} :
          Call(from_dataframe_to_network(data, arg, all_nodes))
    /\ UNCHANGED data

NextTable == FromDataframe \/ FromDataframeToNetwork

InitTable == InitFromDataframe \/ InitFromDataframeToNetwork

SpecTable == InitTable /\ [][NextTable]_vars

-----------------------------------------------------------------------------
(* Number lists handed to normalize_data.                                  *)

MaxValues == 3

\* ints, and the two finite floats farthest apart
NormalizeValues ==
    {PInt(0), PInt(1), PInt(3), PFloat(0 - MaxFloat, 1), PFloat(MaxFloat, 1)}
InitNormalize ==
    /\ fn = "normalize_data"
    /\ arg \in [min_val : {None, PInt(0), PInt(1)}, max_val : {None, PInt(1), PInt(3)},
                out_min : {PFloat(0, 1), PFloat(1, 1)}, out_max : {PFloat(1, 1), PFloat(3, 1)}]
    /\ \E i \in 0..MaxValues : \E q \in [1..i -> NormalizeValues] : data = PList(q)
    /\ prev = data
    /\ ret = NotCalled
    /\ n = 0

NormalizeData ==
    /\ fn = "normalize_data" /\ n = 0
    /\ Call(normalize_data(data.l, arg))
    /\ UNCHANGED data

NextNormalize == NormalizeData

SpecNormalize == InitNormalize /\ [][NextNormalize]_vars

-----------------------------------------------------------------------------
(* Data handed to ChartDataProcessor.process and to                        *)
(* ThreeDDataProcessor.process.                                            *)

MaxSlices == 2

\* pie data of labels p, q and values 1, -1, 2, without a 'sort' entry and
\* with one that holds "descending", "ascending" or None
PieDicts ==
    LET plain == {PDict([labels |-> l, values |-> v]) :
                    l \in ListsUpTo({PStr("p"), PStr("q")}, MaxSlices),
                    v \in ListsUpTo({PInt(1), PInt(-1), PInt(2)}, MaxSlices)}
    IN  plain \cup {Put(d, "sort", sort) :
                        d \in plain, sort \in {PStr("descending"), PStr("ascending"), None}}

\* a series and a scatter chart that validate, pie values that are no
\* numbers, values that are no charts; clouds of a point near the origin, a
\* point beyond the threshold and a point of two coordinates; surfaces
\* without and with an 'x_range'; a graph
InitProcessor ==
    /\ \/ /\ fn = "ChartDataProcessor.process"
          /\ arg \in ChartTypes \cup OtherTypes
          /\ data \in PieDicts \cup Scalars \cup
                {PDict([labels |-> PList(<<PStr("p")>>),
                        datasets |-> PList(<<PDict([label |-> PStr("a"),
                                                    data |-> PList(<<PInt(1)>>)])>>)]),
                 PDict([datasets |-> PList(<<PDict([label |-> PStr("a"),
                                                    data |-> PList(<<Point2({"x", "y"})>>)])>>)]),
                 PDict([labels |-> PList(<<PStr("p")>>), values |-> PList(<<PStr("s")>>)])}
       \/ /\ fn = "ThreeDDataProcessor.process"
          /\ arg \in ThreeDTypes \cup {"mesh3d"}
          /\ data \in ListsUpTo({Point2({"x", "y", "z"}), Point2({"x", "y"}),
                                 PDict([x |-> PInt(-2048), y |-> PInt(1), z |-> PInt(1)])},
                                MaxItems)
                \cup Surfaces
                \cup {Put(d, "x_range", PList(<<PInt(0), PInt(1)>>)) : d \in Surfaces \ {PCallable}}
                \cup {DanglingGraph}
    /\ prev = data
    /\ ret = NotCalled
    /\ n = 0

\* process(data): the caller may hand the object it holds to process again
ChartDataProcessorProcess ==
    /\ fn = "ChartDataProcessor.process"
    /\ LET effect == ChartProcess(data, arg)
       IN  Call(effect.out) /\ data' = effect.heap

ThreeDDataProcessorProcess ==
    /\ fn = "ThreeDDataProcessor.process"
    /\ LET effect == ThreeDProcess(data, arg)
       IN  Call(effect.out) /\ data' = effect.heap

NextProcessor == ChartDataProcessorProcess \/ ThreeDDataProcessorProcess

SpecProcessor == InitProcessor /\ [][NextProcessor]_vars

-----------------------------------------------------------------------------
(* Every Transformer operation.                                            *)

InitTransformer ==
    \/ InitFromDataframe
    \/ InitFromDataframeToNetwork
    \/ InitNormalize
    \/ InitPivot
    \/ InitNetwork

NextTransformer ==
    \/ FromDataframe
    \/ FromDataframeToNetwork
    \/ NormalizeData
    \/ PivotDataForHeatmap
    \/ PrepareNetworkData
    \/ NetworkDataProcessorProcess

SpecTransformer == InitTransformer /\ [][NextTransformer]_vars

-----------------------------------------------------------------------------
(* Properties of the validators.                                           *)

Called == ret # NotCalled
Returned == ret.kind = "return"
\* the call returned (False, <a message>)
Rejected == Returned /\ ret.val[1] = FALSE /\ ret.val[2] # None /\ ret.val[2].k = "str"

\* SeriesData of the data model: labels, and datasets whose data are as long
WellFormedSeries(d) ==
    /\ IsDict(d) /\ ListField(d, "labels") /\ ListField(d, "datasets")
    /\ \A ds \in SeqRange(Get(d, "datasets").l) :
          /\ IsDict(ds) /\ ListField(ds, "data")
          /\ Len(Get(ds, "data").l) = Len(Get(d, "labels").l)

SomeLengthDiffers(d) ==
    /\ IsDict(d) /\ ListField(d, "labels") /\ ListField(d, "datasets")
    /\ \E ds \in SeqRange(Get(d, "datasets").l) :
          /\ IsDict(ds) /\ ListField(ds, "data")
          /\ Len(Get(ds, "data").l) # Len(Get(d, "labels").l)

SeriesCall == fn = "validate_for_chart" /\ arg \in {"line", "bar", "radar"} /\ Called

\* C1: for line, bar and radar, validate_for_chart returns (True, None) for
\* every dict with a list 'labels' and a list 'datasets' of dicts whose 'data'
\* lists are as long as 'labels', and returns (False, message) whenever some
\* dataset's 'data' has another length than 'labels'.
C1_SeriesLengths ==
    SeriesCall =>
        /\ WellFormedSeries(prev) => ret = Valid
        /\ SomeLengthDiffers(prev) => Rejected

C1_Witness ==
    /\ SeriesCall /\ WellFormedSeries(prev) /\ ret = Valid
    /\ Len(Get(prev, "datasets").l) = 2 /\ Len(Get(prev, "labels").l) = 1

RecognisedCall ==
    /\ Called
    /\ fn = "validate_for_chart" => arg \in ChartTypes
    /\ fn = "validate_for_3d" => arg \in ThreeDTypes

\* C2: for a recognised category the three validators never raise, whatever
\* the input: they always return a (bool, message) pair.
C2_NeverRaises ==
    RecognisedCall => Returned /\ ret.val[1] \in BOOLEAN

UnrecognisedCall ==
    /\ Called
    /\ \/ fn = "validate_for_chart" /\ arg \notin ChartTypes
       \/ fn = "validate_for_3d" /\ arg \notin ThreeDTypes

\* C3 as stated: for a category name that is not recognised, validate_for_chart
\* and validate_for_3d raise instead of returning a pair.
C3_UnrecognisedRaises ==
    UnrecognisedCall => ret.kind = "raise"

\* C3 amended: for a category name that is not recognised, validate_for_chart
\* and validate_for_3d return (False, message), the message naming the
\* unsupported type; they do not raise.
C3_UnrecognisedRejected ==
    UnrecognisedCall => Rejected /\ ret.val[2].args = <<PStr(arg)>>

C3_Witness ==
    UnrecognisedCall /\ fn = "validate_for_chart" /\ WellFormedSeries(prev) /\ Rejected

\* Graph shape of validate_graph: nodes with 'id', edges with 'source', 'target'
WellFormedGraph(d) ==
    /\ IsDict(d) /\ ListField(d, "nodes") /\ ListField(d, "edges")
    /\ \A nd \in SeqRange(Get(d, "nodes").l) : IsDict(nd) /\ HasKey(nd, "id")
    /\ \A e \in SeqRange(Get(d, "edges").l) :
          IsDict(e) /\ HasKey(e, "source") /\ HasKey(e, "target")

NodeIds(nodes) == {Get(nodes[i], "id") : i \in 1..Len(nodes)}

\* C4: validate_for_network returns (True, None) exactly when the input is a
\* dict with a list 'nodes' of dicts holding 'id' and a list 'edges' of dicts
\* holding 'source' and 'target' (and otherwise (False, message)); an edge to
\* an id of no node is accepted.
C4_NetworkShape ==
    (fn = "validate_for_network" /\ Called) =>
        IF WellFormedGraph(prev) THEN ret = Valid ELSE Rejected

C4_Witness ==
    /\ fn = "validate_for_network" /\ ret = Valid
    /\ \E e \in SeqRange(Get(prev, "edges").l) :
          Get(e, "target") \notin NodeIds(Get(prev, "nodes").l)

-----------------------------------------------------------------------------
(* Properties of NetworkDataProcessor.process.                             *)

ProcessReturned == fn = "NetworkDataProcessor.process" /\ Called /\ Returned

NodesOf(g) == Get(g, "nodes").l
EdgesOf(g) == Get(g, "edges").l
\* how many edges of the list have `id` at the given end
EndCount(edges, end, id) == Cardinality({i \in 1..Len(edges) : Get(edges[i], end) = id})
DegreesOf(node) == <<Get(node, "in_degree").i, Get(node, "out_degree").i, Get(node, "degree").i>>

\* C5: after process every node carries in_degree = the number of retained
\* edges whose target is its id, out_degree = the number whose source is its
\* id, degree = their sum; nodes A, B, C with edges (A,B), (B,C), (A,C) get
\* A: in 0, out 2, degree 2; B: in 1, out 1, degree 2; C: in 2, out 0, degree 2.
C5_Degrees ==
    ProcessReturned =>
        /\ \A i \in 1..Len(NodesOf(ret.val)) :
              LET node == NodesOf(ret.val)[i]
                  in == EndCount(EdgesOf(ret.val), "target", Get(node, "id"))
                  out == EndCount(EdgesOf(ret.val), "source", Get(node, "id"))
              IN  DegreesOf(node) = <<in, out, in + out>>
        /\ prev = TriangleGraph =>
              [i \in 1..3 |-> DegreesOf(NodesOf(ret.val)[i])]
                  = << <<0, 2, 2>>, <<1, 1, 2>>, <<2, 0, 2>> >>

C5_Witness == ProcessReturned /\ prev = TriangleGraph /\ n = 1

BothEndsKnown(e, g) ==
    /\ \E i \in 1..Len(NodesOf(g)) : Get(NodesOf(g)[i], "id") = Get(e, "source")
    /\ \E i \in 1..Len(NodesOf(g)) : Get(NodesOf(g)[i], "id") = Get(e, "target")

\* C6: process does not raise for an edge that names an unknown node id: the
\* returned edge list is the input edges with both ends among the input
\* nodes' ids, in their order, and a dropped edge counts in no node's degree
\* (nodes A, B with the edge A->Z: no edge returned, both degrees 0).
C6_DanglingDropped ==
    (fn = "NetworkDataProcessor.process" /\ Called /\ WellFormedGraph(prev)) =>
        /\ Returned
        /\ EdgesOf(ret.val) = SelectSeq(EdgesOf(prev), LAMBDA e : BothEndsKnown(e, prev))
        /\ \A i \in 1..Len(NodesOf(ret.val)) :
              LET id == Get(NodesOf(prev)[i], "id")
                  counted(end) ==
                      Cardinality({j \in 1..Len(EdgesOf(prev)) :
                          /\ BothEndsKnown(EdgesOf(prev)[j], prev)
                          /\ Get(EdgesOf(prev)[j], end) = id})
              IN  /\ Get(NodesOf(ret.val)[i], "in_degree").i = counted("target")
                  /\ Get(NodesOf(ret.val)[i], "out_degree").i = counted("source")
        /\ prev = DanglingGraph =>
              /\ EdgesOf(ret.val) = <<>>
              /\ \A i \in 1..2 : DegreesOf(NodesOf(ret.val)[i]) = <<0, 0, 0>>

C6_Witness ==
    /\ fn = "NetworkDataProcessor.process" /\ Called /\ Returned
    /\ prev = DanglingGraph /\ EdgesOf(ret.val) = <<>>

-----------------------------------------------------------------------------
(* Properties of pivot_data_for_heatmap.                                   *)

PivotReturned == fn = "pivot_data_for_heatmap" /\ Called /\ Returned
XLabels == Get(ret.val, "x_labels").l
YLabels == Get(ret.val, "y_labels").l
Grid == Get(ret.val, "values").l
WellFormedRecords(d) ==
    IsList(d) /\ \A i \in 1..Len(d.l) : IsDict(d.l[i]) /\ DOMAIN d.l[i].d = {"x", "y", "v"}

\* C8: for every non-empty record list the grid pivot_data_for_heatmap returns
\* has len(values) = len(y_labels) and every row of len(x_labels) cells.
C8_GridShape ==
    (fn = "pivot_data_for_heatmap" /\ Called /\ WellFormedRecords(prev) /\ Len(prev.l) > 0) =>
        /\ Returned
        /\ Len(Grid) = Len(YLabels)
        /\ \A r \in 1..Len(Grid) : IsList(Grid[r]) /\ Len(Grid[r].l) = Len(XLabels)

C8_Witness ==
    PivotReturned /\ Len(prev.l) = 3 /\ Len(XLabels) = 2 /\ Len(YLabels) = 1

\* C9: the cell at (y, x) holds the value of the last record, in input order,
\* whose (x, y) pair it is, and 0 when no record has the pair; the records
\* {x:p, y:q, v:1}, {x:p, y:q, v:5} give 5 at (p, q).
C9_LastWriteWins ==
    PivotReturned =>
        /\ \A r \in 1..Len(YLabels), c \in 1..Len(XLabels) :
              LET hits == {i \in 1..Len(prev.l) :
                              /\ Get(prev.l[i], "x") = XLabels[c]
                              /\ Get(prev.l[i], "y") = YLabels[r]}
              IN  IF hits = {} THEN Grid[r].l[c] = PInt(0)
                  ELSE \E i \in hits :
                          /\ \A j \in hits : j <= i
                          /\ Grid[r].l[c] = Get(prev.l[i], "v")
        /\ prev = PList(<<Record("p", "q", 1), Record("p", "q", 5)>>) =>
              Grid = <<PList(<<PInt(5)>>)>>

C9_Witness ==
    PivotReturned /\ prev = PList(<<Record("p", "q", 1), Record("p", "q", 5)>>)

IsLabelOf(v, key) == \E i \in 1..Len(prev.l) : Get(prev.l[i], key) = v
Ascending(labels) == \A i \in 1..(Len(labels) - 1) : PyLess(labels[i], labels[i + 1])

\* C10: x_labels and y_labels are the distinct values seen under x_key and
\* y_key, each once, in ascending order (not in the order first seen).
C10_SortedLabels ==
    PivotReturned =>
        /\ \A v \in {PStr(l) : l \in PivotLabels} :
              /\ IsLabelOf(v, "x") <=> \E c \in 1..Len(XLabels) : XLabels[c] = v
              /\ IsLabelOf(v, "y") <=> \E r \in 1..Len(YLabels) : YLabels[r] = v
        /\ Ascending(XLabels) /\ Ascending(YLabels)

\* the first record shows the greater x label, a later one the smaller
C10_Witness ==
    /\ PivotReturned /\ Len(prev.l) >= 2
    /\ Get(prev.l[1], "x") = PStr("q") /\ Get(prev.l[2], "x") = PStr("p")
    /\ XLabels = <<PStr("p"), PStr("q")>>

-----------------------------------------------------------------------------
(* The Transformer operations and the object they are handed.              *)

TransformerReturned ==
    /\ Called /\ Returned
    /\ fn \in {"from_dataframe", "from_dataframe_to_network", "normalize_data",
               "pivot_data_for_heatmap", "prepare_network_data",
               "NetworkDataProcessor.process"}

DegreeKeys == {"in_degree", "out_degree", "degree"}

\* what process may have written: the 'edges' entry, and the three degree
\* entries of each node
OnlyDegreesAndEdgesWritten(before, after) ==
    /\ DOMAIN after.d = DOMAIN before.d
    /\ \A key \in DOMAIN before.d \ {"nodes", "edges"} : Get(after, key) = Get(before, key)
    /\ Len(NodesOf(after)) = Len(NodesOf(before))
    /\ \A i \in 1..Len(NodesOf(before)) :
          /\ DOMAIN NodesOf(after)[i].d = DOMAIN NodesOf(before)[i].d \cup DegreeKeys
          /\ \A key \in DOMAIN NodesOf(before)[i].d \ DegreeKeys :
                Get(NodesOf(after)[i], key) = Get(NodesOf(before)[i], key)

-----------------------------------------------------------------------------
(* Properties of DataTransformer.from_dataframe.                           *)

FromDataframeCalled == fn = "from_dataframe" /\ Called
IsDataFrame(d) == d.k = "DataFrame"
\* the x column is the one named, or the first column when none is named
XResolved == arg.x_column # None \/ Len(prev.columns) > 0
XKey == IF arg.x_column = None THEN prev.columns[1] ELSE arg.x_column.s
\* the y-keys in effect: the list given, the one name given, or every column
\* other than the x column
YKeys ==
    IF arg.y_columns = None THEN SelectSeq(prev.columns, LAMBDA c : c # XKey)
    ELSE IF arg.y_columns.k = "str" THEN <<arg.y_columns.s>>
    ELSE [i \in 1..Len(arg.y_columns.l) |-> arg.y_columns.l[i].s]
KnownColumn(c) == \E i \in 1..Len(prev.columns) : prev.columns[i] = c
TableColumn(c) == [i \in 1..Len(prev.rows) |-> prev.rows[i][c]]
HeatmapCall ==
    /\ FromDataframeCalled /\ IsDataFrame(prev) /\ arg.chart_type = "heatmap"
    /\ XResolved /\ KnownColumn(XKey)
    /\ Len(YKeys) >= 2 /\ KnownColumn(YKeys[1]) /\ KnownColumn(YKeys[2])
SamePair(i, j) ==
    /\ prev.rows[i][XKey] = prev.rows[j][XKey]
    /\ prev.rows[i][YKeys[1]] = prev.rows[j][YKeys[1]]

\* C11: for chart type heatmap with at least two y-keys from_dataframe
\* returns a grid for every table, also when two rows share an (x, y) pair:
\* every row's pair has a cell, and the cell holds the value of the last
\* row with that pair.
C11_HeatmapLastRowWins ==
    HeatmapCall =>
        /\ Returned
        /\ Len(Grid) = Len(YLabels)
        /\ \A i \in 1..Len(prev.rows) :
              \E r \in 1..Len(YLabels), c \in 1..Len(XLabels) :
                  /\ YLabels[r] = prev.rows[i][YKeys[1]]
                  /\ XLabels[c] = prev.rows[i][XKey]
                  /\ \E j \in i..Len(prev.rows) :
                        /\ SamePair(i, j)
                        /\ \A l \in (j + 1)..Len(prev.rows) : ~SamePair(i, l)
                        /\ NumEq(Grid[r].l[c], prev.rows[j][YKeys[2]])

SeriesTableCall ==
    /\ FromDataframeCalled /\ IsDataFrame(prev)
    /\ arg.chart_type \in {"line", "bar", "radar"}
    /\ XResolved /\ KnownColumn(XKey)
    /\ \A i \in 1..Len(YKeys) : KnownColumn(YKeys[i])
SeriesLabels == Get(ret.val, "labels")
SeriesSets == Get(ret.val, "datasets").l

\* C12: for line, bar and radar from_dataframe returns labels equal to the x
\* column in row order and one dataset per y-key, in the order of the y-keys,
\* with the y-key as label and that column in row order as data; columns
\* [t, a, b] with y-keys [a, b] give labels = t, datasets = [a, b].
C12_SeriesFromTable ==
    SeriesTableCall =>
        /\ Returned
        /\ DOMAIN ret.val.d = {"labels", "datasets"}
        /\ SeriesLabels = PList(TableColumn(XKey))
        /\ Len(SeriesSets) = Len(YKeys)
        /\ \A i \in 1..Len(YKeys) :
              SeriesSets[i] = PDict([label |-> PStr(YKeys[i]),
                                     data |-> PList(TableColumn(YKeys[i]))])
        /\ (prev.columns = <<"t", "a", "b">> /\ arg.x_column = PStr("t")
                /\ arg.y_columns = PList(<<PStr("a"), PStr("b")>>)) =>
              /\ SeriesLabels.l = TableColumn("t")
              /\ Get(SeriesSets[1], "data").l = TableColumn("a")
              /\ Get(SeriesSets[2], "data").l = TableColumn("b")

\* a table of two rows whose columns a and b differ, with y-keys [a, b]
C12_Witness ==
    /\ SeriesTableCall /\ Returned
    /\ prev.columns = <<"t", "a", "b">> /\ Len(prev.rows) = 2
    /\ arg.x_column = PStr("t") /\ arg.y_columns = PList(<<PStr("a"), PStr("b")>>)
    /\ TableColumn("a") # TableColumn("b")
    /\ prev.rows[1]["t"] # prev.rows[2]["t"]

-----------------------------------------------------------------------------
(* Properties of DataTransformer.from_dataframe_to_network.                *)

NetworkFromTable == fn = "from_dataframe_to_network" /\ Called /\ Returned
ReturnedIds == [i \in 1..Len(NodesOf(ret.val)) |-> Get(NodesOf(ret.val)[i], "id")]
\* the ids as the rows show them: source and target of row 1, of row 2, ...
ScanOrder ==
    [i \in 1..(2 * Len(prev.rows)) |->
        IF i % 2 = 1 THEN prev.rows[(i + 1) \div 2][arg.source_col]
        ELSE prev.rows[i \div 2][arg.target_col]]
FirstSeenAt(id) ==
    CHOOSE i \in 1..Len(ScanOrder) :
        ScanOrder[i] = id /\ \A j \in 1..(i - 1) : ScanOrder[j] # id

\* C13: the node list of from_dataframe_to_network has the ids in the order
\* in which the row scan first shows them; the first row's source is the
\* first node.
C13_FirstSeenOrder ==
    NetworkFromTable =>
        /\ \A a, b \in 1..Len(ReturnedIds) :
              a < b => FirstSeenAt(ReturnedIds[a]) < FirstSeenAt(ReturnedIds[b])
        /\ Len(prev.rows) > 0 => ReturnedIds[1] = prev.rows[1][arg.source_col]

\* C14: the graph from_dataframe_to_network returns has pairwise distinct
\* node ids, which are exactly the values of the source and target columns,
\* one edge per row in row order, and no edge end that is not a node id.
C14_ReferentiallyClosed ==
    NetworkFromTable =>
        /\ \A a, b \in 1..Len(ReturnedIds) : a # b => ReturnedIds[a] # ReturnedIds[b]
        /\ SeqRange(ReturnedIds) = SeqRange(ScanOrder)
        /\ Len(EdgesOf(ret.val)) = Len(prev.rows)
        /\ \A i \in 1..Len(prev.rows) :
              /\ Get(EdgesOf(ret.val)[i], "source") = prev.rows[i][arg.source_col]
              /\ Get(EdgesOf(ret.val)[i], "target") = prev.rows[i][arg.target_col]
              /\ Get(EdgesOf(ret.val)[i], "source") \in SeqRange(ReturnedIds)
              /\ Get(EdgesOf(ret.val)[i], "target") \in SeqRange(ReturnedIds)

\* two rows, two ids, one of them seen only as a target
C14_Witness ==
    /\ NetworkFromTable /\ Len(prev.rows) = 2 /\ Len(ReturnedIds) = 2
    /\ TableColumn(arg.source_col) = <<PInt(1), PInt(1)>>
    /\ TableColumn(arg.target_col) = <<PInt(1), PInt(2)>>

-----------------------------------------------------------------------------
(* Properties of normalize_data.                                           *)

NormalizeCalled == fn = "normalize_data" /\ Called
Zero == PFloat(0, 1)
One == PFloat(1, 1)
\* out_min = 0, out_max = 1 and the input domain left to the data
UnitCall ==
    /\ NormalizeCalled
    /\ arg.min_val = None /\ arg.max_val = None
    /\ arg.out_min = Zero /\ arg.out_max = One
TwoDistinct(q) == \E i, j \in 1..Len(q) : ~NumEq(q[i], q[j])
Least(q, i) == \A j \in 1..Len(q) : ~NumLess(q[j], q[i])
Greatest(q, i) == \A j \in 1..Len(q) : ~NumLess(q[i], q[j])

\* C15: normalize_data(values, out_min=0, out_max=1) with the default input
\* domain returns a list as long as the input in which every occurrence of
\* the minimum is exactly 0 and every occurrence of the maximum exactly 1,
\* whenever the input holds at least two distinct values.
C15_UnitEnds ==
    (UnitCall /\ TwoDistinct(prev.l)) =>
        /\ Returned
        /\ Len(ret.val.l) = Len(prev.l)
        /\ \A i \in 1..Len(prev.l) :
              /\ Least(prev.l, i) => NumEq(ret.val.l[i], Zero)
              /\ Greatest(prev.l, i) => NumEq(ret.val.l[i], One)

InMin == IF arg.min_val # None THEN arg.min_val ELSE PyMin(prev.l)
InMax == IF arg.max_val # None THEN arg.max_val ELSE PyMax(prev.l)

\* C16: on a degenerate domain (the in_min in effect equals the in_max in
\* effect, the inputs being all equal or the caller having passed equal
\* min_val and max_val) normalize_data returns out_min for every element and
\* does not raise; on an empty input it returns an empty list.
C16_DegenerateDomain ==
    NormalizeCalled =>
        /\ Len(prev.l) = 0 => ret = Return(PList(<<>>))
        /\ (Len(prev.l) > 0 /\ NumEq(InMin, InMax)) =>
              /\ Returned
              /\ ret.val = PList([i \in 1..Len(prev.l) |-> arg.out_min])

\* distinct inputs, and equal min_val and max_val passed by the caller
C16_Witness ==
    /\ NormalizeCalled /\ Returned
    /\ Len(prev.l) = 2 /\ TwoDistinct(prev.l)
    /\ arg.min_val = PInt(1) /\ arg.max_val = PInt(1)
    /\ arg.out_min = One
    /\ ret.val.l = <<One, One>>

-----------------------------------------------------------------------------
(* Errors of DataTransformer.from_dataframe.                               *)

FromDataframeTypes == {"line", "bar", "radar", "pie", "donut", "scatter", "heatmap"}

\* C17: from_dataframe raises TypeError for an input that is no DataFrame,
\* whatever the chart type, ValueError for the chart types network and
\* tree, and ValueError for every chart type outside line, bar, radar, pie,
\* donut, scatter and heatmap; it returns no value in these cases.
C17_TypedErrors ==
    FromDataframeCalled =>
        /\ ~IsDataFrame(prev) => ret = Raise("TypeError")
        /\ (IsDataFrame(prev) /\ arg.chart_type \in {"network", "tree"}) =>
              ret = Raise("ValueError")
        /\ (IsDataFrame(prev) /\ arg.chart_type \notin FromDataframeTypes) =>
              ret = Raise("ValueError")

\* the number of y-keys in effect: of the list given, of the one name given,
\* or of the columns other than the x column
YKeyCount ==
    IF arg.y_columns = None
    THEN (IF XResolved THEN Len(SelectSeq(prev.columns, LAMBDA c : c # XKey)) ELSE 0)
    ELSE IF arg.y_columns.k = "str" THEN 1
    ELSE Len(arg.y_columns.l)

\* C18: for chart type heatmap from_dataframe raises ValueError whenever
\* fewer than two y-keys are in effect, without pivoting.
C18_HeatmapNeedsTwoKeys ==
    (FromDataframeCalled /\ IsDataFrame(prev) /\ arg.chart_type = "heatmap"
        /\ YKeyCount < 2) =>
            ret = Raise("ValueError")

-----------------------------------------------------------------------------
(* Properties of validate_for_chart for pie, donut and scatter.            *)

ProportionCall == fn = "validate_for_chart" /\ arg \in {"pie", "donut"} /\ Called
WellFormedProportion(d) ==
    /\ IsDict(d) /\ ListField(d, "labels") /\ ListField(d, "values")
    /\ Len(Get(d, "values").l) = Len(Get(d, "labels").l)

\* C19: for pie and donut validate_for_chart returns (True, None) exactly
\* when the input is a dict with lists 'labels' and 'values' of equal
\* length, and (False, message) in every other case.
C19_ProportionShape ==
    ProportionCall =>
        IF WellFormedProportion(prev) THEN ret = Valid ELSE Rejected

\* both keys hold lists, of different lengths
C19_Witness ==
    /\ ProportionCall /\ Rejected
    /\ IsDict(prev) /\ ListField(prev, "labels") /\ ListField(prev, "values")
    /\ Len(Get(prev, "labels").l) = 1 /\ Len(Get(prev, "values").l) = 0

ScatterCall == fn = "validate_for_chart" /\ arg = "scatter" /\ Called
WellFormedPoint(point) == IsDict(point) /\ HasKey(point, "x") /\ HasKey(point, "y")
WellFormedScatter(d) ==
    /\ IsDict(d) /\ ListField(d, "datasets")
    /\ \A ds \in SeqRange(Get(d, "datasets").l) :
          /\ IsDict(ds) /\ ListField(ds, "data")
          /\ \A point \in SeqRange(Get(ds, "data").l) : WellFormedPoint(point)

\* C20: for scatter validate_for_chart returns (True, None) exactly when the
\* input is a dict whose 'datasets' is a list of dicts, each with a list
\* 'data' of dicts that have both 'x' and 'y'; one point without 'x' or 'y'
\* in any dataset gives (False, message).
C20_ScatterShape ==
    ScatterCall =>
        IF WellFormedScatter(prev) THEN ret = Valid ELSE Rejected

\* a well-formed first dataset, and a second whose only point lacks 'y'
C20_Witness ==
    /\ ScatterCall /\ Rejected
    /\ IsDict(prev) /\ ListField(prev, "datasets") /\ Len(Get(prev, "datasets").l) = 2
    /\ Get(prev, "datasets").l[1] =
          PDict([label |-> PStr("a"), data |-> PList(<<Point2({"x", "y"})>>)])
    /\ Get(prev, "datasets").l[2] =
          PDict([label |-> PStr("a"), data |-> PList(<<Point2({"x"})>>)])

-----------------------------------------------------------------------------
(* Properties of validate_for_3d.                                          *)

WellFormedCloud(d) ==
    /\ IsList(d)
    /\ \A p \in SeqRange(d.l) :
          IsDict(p) /\ HasKey(p, "x") /\ HasKey(p, "y") /\ HasKey(p, "z")
WellFormedSurface(d) ==
    \/ d.k = "callable"
    \/ /\ IsDict(d) /\ ListField(d, "values")
       /\ \A row \in SeqRange(Get(d, "values").l) : Sized(row)
       /\ \A r1, r2 \in SeqRange(Get(d, "values").l) : PyLen(r1) = PyLen(r2)

\* C21: validate_for_3d accepts exactly: for scatter3d a list of dicts that
\* each have 'x', 'y' and 'z'; for surface3d a callable, or a dict with a
\* list 'values' whose rows all have the same length; for network3d what
\* validate_for_network accepts, with the same (bool, message) pair.
C21_Accepts3d ==
    (fn = "validate_for_3d" /\ Called) =>
        /\ arg = "scatter3d" => (ret = Valid <=> WellFormedCloud(prev))
        /\ arg = "surface3d" => (ret = Valid <=> WellFormedSurface(prev))
        /\ arg = "network3d" => ret = validate_for_network(prev)

\* a surface of two rows of one length
C21_Witness ==
    /\ fn = "validate_for_3d" /\ Called /\ arg = "surface3d" /\ ret = Valid
    /\ IsDict(prev) /\ Len(Get(prev, "values").l) = 2

-----------------------------------------------------------------------------
(* The order of the checks of validate_for_chart for line, bar and radar.  *)

\* the five checks of the top level, in the order of the rule list
TopFails(d, k) ==
    CASE k = 1 -> ~IsDict(d)
      [] k = 2 -> ~(IsDict(d) /\ HasKey(d, "labels"))
      [] k = 3 -> ~(IsDict(d) /\ HasKey(d, "datasets"))
      [] k = 4 -> ~(IsDict(d) /\ ListField(d, "labels"))
      [] k = 5 -> ~(IsDict(d) /\ ListField(d, "datasets"))
TopMessage(k, chart_type) ==
    CASE k = 1 -> FStr("Data for {} chart must be a dictionary", <<PStr(chart_type)>>)
      [] k = 2 -> FStr("Data for {} chart must have 'labels' key", <<PStr(chart_type)>>)
      [] k = 3 -> FStr("Data for {} chart must have 'datasets' key", <<PStr(chart_type)>>)
      [] k = 4 -> PStr("'labels' must be a list")
      [] k = 5 -> PStr("'datasets' must be a list")
\* the four checks of dataset j
DatasetFails(d, j, r) ==
    LET ds == Get(d, "datasets").l[j] IN
    CASE r = 1 -> ~IsDict(ds)
      [] r = 2 -> ~(IsDict(ds) /\ HasKey(ds, "data"))
      [] r = 3 -> ~(IsDict(ds) /\ ListField(ds, "data"))
      [] r = 4 -> ~(IsDict(ds) /\ ListField(ds, "data")
                        /\ Len(Get(ds, "data").l) = Len(Get(d, "labels").l))
DatasetMessage(d, j, r) ==
    CASE r = 1 -> PStr("Each dataset must be a dictionary")
      [] r = 2 -> PStr("Each dataset must have a 'data' key")
      [] r = 3 -> PStr("Dataset 'data' must be a list")
      [] r = 4 -> FStr("Dataset has {} values but there are {} labels",
                       <<PInt(Len(Get(Get(d, "datasets").l[j], "data").l)),
                         PInt(Len(Get(d, "labels").l))>>)
\* the outcome the earliest failing check gives
EarliestFailure(d, chart_type) ==
    IF \E k \in 1..5 : TopFails(d, k)
    THEN LET k == CHOOSE k \in 1..5 : TopFails(d, k) /\ \A l \in 1..(k - 1) : ~TopFails(d, l)
         IN  Invalid(TopMessage(k, chart_type))
    ELSE LET failing == {jr \in (1..Len(Get(d, "datasets").l)) \X (1..4) :
                            DatasetFails(d, jr[1], jr[2])}
         IN  IF failing = {} THEN Valid
             ELSE LET first == CHOOSE jr \in failing : \A other \in failing :
                                  \/ jr[1] < other[1]
                                  \/ jr[1] = other[1] /\ jr[2] <= other[2]
                  IN  Invalid(DatasetMessage(d, first[1], first[2]))
ViolationCount(d) ==
    IF \E k \in 1..5 : TopFails(d, k) THEN Cardinality({k \in 1..5 : TopFails(d, k)})
    ELSE Cardinality({jr \in (1..Len(Get(d, "datasets").l)) \X (1..4) :
                         DatasetFails(d, jr[1], jr[2])})

\* C23: for line, bar and radar the message returned is that of the earliest
\* failing check in the order: is a dict, has 'labels', has 'datasets',
\* 'labels' is a list, 'datasets' is a list, then dataset by dataset: is a
\* dict, has 'data', 'data' is a list, is as long as 'labels'; a later
\* violation never changes the message.
C23_EarliestCheckDecides ==
    SeriesCall => ret = EarliestFailure(prev, arg)

\* 'labels' and 'datasets' are both no lists: the message is that of 'labels'
C23_Witness ==
    /\ SeriesCall /\ Rejected
    /\ IsDict(prev) /\ HasKey(prev, "labels") /\ HasKey(prev, "datasets")
    /\ ~IsList(Get(prev, "labels")) /\ ~IsList(Get(prev, "datasets"))
    /\ ViolationCount(prev) >= 2
    /\ ret.val[2] = PStr("'labels' must be a list")

-----------------------------------------------------------------------------
(* Attributes and validity of what DataTransformer returns.                *)

\* the attribute names declared whose column the table has
Declared(attrs) ==
    IF attrs = None THEN {}
    ELSE {a \in DOMAIN attrs.d : KnownColumn(Get(attrs, a).s)}
Weighted == arg.weight_col # None /\ KnownColumn(arg.weight_col.s)
SourceRows(id) == {r \in 1..Len(prev.rows) : prev.rows[r][arg.source_col] = id}
EdgeCarriesRow(i) ==
    LET edge == EdgesOf(ret.val)[i] IN
    /\ \A a \in Declared(arg.edge_attrs) :
          HasKey(edge, a) /\ Get(edge, a) = prev.rows[i][Get(arg.edge_attrs, a).s]
    /\ Weighted =>
          HasKey(edge, "weight") /\ Get(edge, "weight") = prev.rows[i][arg.weight_col.s]

\* C24 as stated: every node of the graph from_dataframe_to_network returns,
\* whether its id occurs in the source column, the target column or both,
\* carries every declared node attribute whose column exists, and every edge
\* carries each declared edge attribute and the weight of its own row.
C24_AttributesOnEveryNode ==
    NetworkFromTable =>
        /\ \A i \in 1..Len(NodesOf(ret.val)) :
              \A a \in Declared(arg.node_attrs) : HasKey(NodesOf(ret.val)[i], a)
        /\ \A i \in 1..Len(EdgesOf(ret.val)) : EdgeCarriesRow(i)

\* C24 amended: a node whose id occurs in the source column carries every
\* declared node attribute whose column exists, with the value of the first
\* row that has the id as source; a node whose id occurs in the target
\* column only carries nothing but its id; every edge carries each declared
\* edge attribute and the weight of its own row, and nothing else besides
\* source and target.
C24_AttributesFromSourceRows ==
    NetworkFromTable =>
        /\ \A i \in 1..Len(NodesOf(ret.val)) :
              LET node == NodesOf(ret.val)[i]
                  rows == SourceRows(ReturnedIds[i])
              IN  IF rows = {} THEN DOMAIN node.d = {"id"}
                  ELSE /\ DOMAIN node.d = {"id"} \cup Declared(arg.node_attrs)
                       /\ \A a \in Declared(arg.node_attrs) : \E r \in rows :
                             /\ \A other \in rows : r <= other
                             /\ Get(node, a) = prev.rows[r][Get(arg.node_attrs, a).s]
        /\ \A i \in 1..Len(EdgesOf(ret.val)) :
              /\ EdgeCarriesRow(i)
              /\ DOMAIN EdgesOf(ret.val)[i].d =
                    {"source", "target"} \cup Declared(arg.edge_attrs)
                        \cup (IF Weighted THEN {"weight"} ELSE {})

\* id 1 is the source of two rows that differ in the attribute column, id 2
\* is a target only
C24_Witness ==
    /\ NetworkFromTable /\ Declared(arg.node_attrs) = {"group"}
    /\ Declared(arg.edge_attrs) = {"group"} /\ Weighted
    /\ TableColumn(arg.source_col) = <<PInt(1), PInt(1)>>
    /\ TableColumn(arg.target_col) = <<PInt(2), PInt(2)>>
    /\ TableColumn("b") = <<PInt(1), PInt(2)>>
    /\ \E i, j \in 1..Len(ReturnedIds) :
          /\ NodesOf(ret.val)[i] = PDict([id |-> PInt(1), group |-> PInt(1)])
          /\ NodesOf(ret.val)[j] = PDict([id |-> PInt(2)])

ChartFromTable ==
    /\ FromDataframeCalled /\ Returned
    /\ arg.chart_type \in {"line", "bar", "radar", "pie", "donut", "scatter"}

\* C25: what from_dataframe returns for line, bar, radar, pie, donut or
\* scatter is accepted by validate_for_chart for the same chart type, and
\* what from_dataframe_to_network returns is accepted by validate_for_network.
C25_OutputValidates ==
    /\ ChartFromTable => validate_for_chart(ret.val, arg.chart_type) = Valid
    /\ NetworkFromTable => validate_for_network(ret.val) = Valid

\* a scatter chart of two datasets of two points
C25_Witness ==
    /\ ChartFromTable /\ arg.chart_type = "scatter"
    /\ Len(prev.rows) = 2 /\ Len(Get(ret.val, "datasets").l) = 2
    /\ Len(Get(Get(ret.val, "datasets").l[1], "data").l) = 2

-----------------------------------------------------------------------------
(* The processors of chart and 3D data.                                    *)

ChartProcessCalled == fn = "ChartDataProcessor.process" /\ Called
ProportionProcess == ChartProcessCalled /\ arg \in {"pie", "donut"}
Validated == validate_for_chart(prev, arg) = Valid
Summable(d) == \A v \in SeqRange(Get(d, "values").l) : v.k \in {"int", "float"}
ValueSum(d) == PySum(Get(d, "values").l, Len(Get(d, "values").l))

\* C22: for a proportion chart, processing validated data whose values sum
\* to zero raises ValueError, and processing any validated data of nonzero
\* sum returns the data.
C22_ZeroSumRaises ==
    (ProportionProcess /\ n = 1 /\ Validated /\ Summable(prev)) =>
        IF NumEq(ValueSum(prev), PInt(0)) THEN ret = Raise("ValueError")
        ELSE Returned /\ ret.val = data

\* C27: what a successful process returns for a proportion chart passes the
\* chart validation again, and processing it once more returns it as it is.
C27_OutputStillValid ==
    (ProportionProcess /\ Returned) =>
        /\ validate_for_chart(ret.val, arg) = Valid
        /\ ChartProcess(ret.val, arg) = Effect(Return(ret.val), ret.val)

ThreeDProcessCalled == fn = "ThreeDDataProcessor.process" /\ Called

\* C28: ThreeDDataProcessor.process returns for every input that
\* validate_for_3d accepts for the visualization type: an empty point list,
\* a surface whose 'values' is empty, a callable surface.
C28_ValidatedInputProcessed ==
    (ThreeDProcessCalled /\ n = 1 /\ validate_for_3d(prev, arg) = Valid) => Returned

-----------------------------------------------------------------------------
(* Degree sums, repeated processing, and the indices of a prepared graph.  *)

RECURSIVE FieldSum(_, _, _)
FieldSum(nodes, key, len) ==
    IF len = 0 THEN 0 ELSE FieldSum(nodes, key, len - 1) + Get(nodes[len], key).i

DistinctIds(nodes) ==
    \A i, j \in 1..Len(nodes) : Get(nodes[i], "id") = Get(nodes[j], "id") => i = j

\* C26: for a graph of pairwise distinct node ids, after process the
\* in_degrees of all nodes and the out_degrees of all nodes each add up to the
\* number of returned edges, a self-loop counting once in each, and the
\* degrees add up to twice that number.
C26_DegreeSums ==
    (ProcessReturned /\ DistinctIds(NodesOf(prev))) =>
        LET nodes == NodesOf(ret.val)
            edges == Len(EdgesOf(ret.val))
        IN  /\ FieldSum(nodes, "in_degree", Len(nodes)) = edges
            /\ FieldSum(nodes, "out_degree", Len(nodes)) = edges
            /\ FieldSum(nodes, "degree", Len(nodes)) = 2 * edges

C26_Witness ==
    /\ ProcessReturned /\ n = 1 /\ DistinctIds(NodesOf(prev))
    /\ Len(NodesOf(prev)) = 2 /\ Len(EdgesOf(ret.val)) = 2
    /\ Len(EdgesOf(prev)) = 3
    /\ \E e \in SeqRange(EdgesOf(ret.val)) : Get(e, "source") = Get(e, "target")

\* C29: process applied to what process returned gives the same graph: the
\* same nodes with the same in_degree, out_degree and degree, the same edges.
C29_Idempotent ==
    (ProcessReturned /\ n = 2) => ret.val = prev /\ data = prev

C29_Witness ==
    /\ ProcessReturned /\ n = 2
    /\ Len(EdgesOf(ret.val)) > 0
    /\ \E nd \in SeqRange(NodesOf(ret.val)) : Get(nd, "degree").i > 1

PrepareReturned == fn = "prepare_network_data" /\ Called /\ Returned
Ends(e) == <<Get(e, "source"), Get(e, "target")>>

\* C30: in the result of prepare_network_data node i carries index i, the
\* source_index and target_index of every returned edge point at returned
\* nodes whose ids are the edge's source and target, and the returned edges
\* are the input edges with both ends among the node ids, in input order.
C30_IndicesPointAtNodes ==
    PrepareReturned =>
        LET nodes == NodesOf(ret.val)
            edges == EdgesOf(ret.val)
            kept == SelectSeq(EdgesOf(prev), LAMBDA e : BothEndsKnown(e, prev))
            PointsAt(index, id) ==
                /\ index.k = "int" /\ index.i + 1 \in 1..Len(nodes)
                /\ Get(nodes[index.i + 1], "id") = id
        IN  /\ \A i \in 1..Len(nodes) : Get(nodes[i], "index") = PInt(i - 1)
            /\ \A i \in 1..Len(edges) :
                  /\ PointsAt(Get(edges[i], "source_index"), Get(edges[i], "source"))
                  /\ PointsAt(Get(edges[i], "target_index"), Get(edges[i], "target"))
            /\ [i \in 1..Len(edges) |-> Ends(edges[i])] = [i \in 1..Len(kept) |-> Ends(kept[i])]
====
